---------------------------- MODULE Spec2Model ----------------------------
(***************************************************************************)
(* A model of avbroot's OTA patching pipeline (src/avbroot/src/cli/ota.rs): *)
(* patch_subcommand -> patch_ota_zip -> patch_ota_payload, with the image   *)
(* pool (input_files), the boot and system phases, the AVB graph engine     *)
(* (load_vbmeta_images, ensure_partitions_protected,                        *)
(* get_vbmeta_patch_order, update_vbmeta_headers), the output temp file and *)
(* its final rename, followed by verify_subcommand on the produced archive. *)
(***************************************************************************)
EXTENDS Integers, Sequences, FiniteSets, TLC

(***************************************************************************)
(* Bounds of the model.                                                    *)
(***************************************************************************)
\* Largest number of descriptors of a vbmeta header of the input payload.
MaxDescriptors == 2
\* Largest number of --replace NAME PATH pairs on the command line.
MaxExternal == 1

(***************************************************************************)
(* Partition names.  The manifest of the input payload is a subset of this  *)
(* universe.                                                                *)
(***************************************************************************)
PartitionNames ==
    {"boot", "init_boot", "system", "vendor", "vbmeta", "vbmeta_system"}

\* The manifests the model draws: any set of the partitions without
\* init_boot, and init_boot together with any of boot, system and vbmeta.
Manifests ==
    (SUBSET (PartitionNames \ {"init_boot"}))
    \cup {S \cup {"init_boot"} : S \in SUBSET {"boot", "system", "vbmeta"}}

\* RequiredImages::is_boot
is_boot(name) == name \in {"boot", "init_boot", "recovery", "vendor_boot"}

\* A test that takes the vendor image for a system image too.
is_system_OrVendor(name) == name \in {"system", "vendor"}

\* RequiredImages::is_system
is_system(name) == name = "system"

\* RequiredImages::is_vbmeta: name.starts_with("vbmeta"), evaluated over the
\* names of the universe.
is_vbmeta(name) == name \in {"vbmeta", "vbmeta_system"}

\* RequiredImages::new: the manifest's boot, system and vbmeta partitions.
RequiredImages(partitions) ==
    {n \in partitions : is_boot(n) \/ is_system(n) \/ is_vbmeta(n)}

iter_boot(required) == {n \in required : is_boot(n)}
iter_system(required) == {n \in required : is_system(n)}
iter_vbmeta(required) == {n \in required : is_vbmeta(n)}

(***************************************************************************)
(* AVB headers and descriptors (format::avb, consumed through accessors).   *)
(* A header is signed iff its public key blob is non-empty.                 *)
(***************************************************************************)
NoKey == ""
\* Public key of the key the input payload's vbmeta images were signed with.
K_OEM == "oem_key"
\* Public key of key_avb, the key given on the command line.
K_AVB == "avb_key"

None == ""

Hash(name, digest) ==
    [type |-> "Hash", name |-> name, key |-> "", value |-> digest,
     cmdline |-> <<>>]
HashTree(name, digest) ==
    [type |-> "HashTree", name |-> name, key |-> "", value |-> digest,
     cmdline |-> <<>>]
ChainPartition(name, public_key) ==
    [type |-> "ChainPartition", name |-> name, key |-> "",
     value |-> public_key, cmdline |-> <<>>]
Property(key, value) ==
    [type |-> "Property", name |-> None, key |-> key, value |-> value,
     cmdline |-> <<>>]
KernelCmdline(cmdline) ==
    [type |-> "KernelCmdline", name |-> None, key |-> "", value |-> "",
     cmdline |-> cmdline]

\* Descriptor::partition_name: Some(name) for the three descriptors that
\* refer to a partition, None for the others.
partition_name(d) ==
    IF d.type \in {"Hash", "HashTree", "ChainPartition"} THEN d.name ELSE None

Header(flags, public_key, descriptors) ==
    [flags |-> flags, public_key |-> public_key, descriptors |-> descriptors]

\* The header of an image file nothing has parsed yet.
Unparsed == Header(0, "?", <<>>)

(***************************************************************************)
(* Generic helpers.                                                        *)
(***************************************************************************)
Restrict(f, S) == [x \in S |-> f[x]]

\* All orders in which the elements of a set may be iterated.
RECURSIVE Perms(_)
Perms(S) ==
    IF S = {} THEN {<<>>}
    ELSE UNION {{<<x>> \o p : p \in Perms(S \ {x})} : x \in S}

\* The subsequences of s (order kept) of length at most max.
RECURSIVE SubSeqs(_, _)
SubSeqs(s, max) ==
    IF s = <<>> \/ max = 0 THEN {<<>>}
    ELSE SubSeqs(Tail(s), max)
         \cup {<<Head(s)>> \o t : t \in SubSeqs(Tail(s), max - 1)}

(***************************************************************************)
(* The inputs the model draws.                                             *)
(***************************************************************************)
\* Descriptors an input vbmeta header may carry, in header order.
VbmetaCandidates(name) ==
    IF name = "vbmeta"
    THEN << Hash("boot", "d0"), Hash("init_boot", "d0"),
            HashTree("system", "d0"),
            ChainPartition("vbmeta_system", K_OEM) >>
    ELSE << HashTree("system", "d0"), HashTree("vendor", "d0"),
            ChainPartition("vbmeta", K_OEM), ChainPartition(name, K_OEM) >>

\* Headers of the vbmeta images of the input payload (or of a replacement).
VbmetaInputHeaders(name) ==
    {Header(f, K_OEM, ds) :
        f \in {0, 1}, ds \in SubSeqs(VbmetaCandidates(name), MaxDescriptors)}

\* Headers (read from the AVB footer) of a boot or system image written by its
\* patcher: the image's own descriptor, with the old or a new digest; a boot
\* image that was signed is re-signed with key_avb.
PatchedHeaders(name) ==
    IF name = "init_boot"
    THEN {Header(0, NoKey, <<Hash(name, "d1")>>)}
    ELSE IF is_boot(name)
    THEN {Header(0, NoKey, <<Hash(name, d)>>) : d \in {"d0", "d1"}}
         \cup {Header(0, K_AVB, <<Hash(name, "d1")>>)}
    ELSE {Header(0, NoKey, <<HashTree(name, d)>>) : d \in {"d0", "d1"}}

\* Headers of a replacement image given with --replace.
ExternalHeaders(name) ==
    {Header(0, NoKey, <<>>)}
    \cup {Header(0, NoKey,
                 <<IF is_boot(name) THEN Hash(name, "d1")
                   ELSE HashTree(name, "d1")>>)}

(***************************************************************************)
(* Files.  External files are the paths given with --replace; every temp    *)
(* file is fresh: the seq-th temp file created for a partition.             *)
(***************************************************************************)
ExternalFile(name) == [kind |-> "external", name |-> name, seq |-> 0]
TempFile(name, seq) == [kind |-> "temp", name |-> name, seq |-> seq]

\* tempfile::tempfile(): a temp file no pool entry was ever backed by.
FreshTemp(name, pool) ==
    IF name \in DOMAIN pool THEN TempFile(name, pool[name].file.seq + 1)
    ELSE TempFile(name, 1)

InputFile(file, state, hdr) == [file |-> file, state |-> state, hdr |-> hdr]

NoError == [kind |-> "none", name |-> None]
Error(kind, name) == [kind |-> kind, name |-> name]

(***************************************************************************)
(* ensure_partitions_protected                                             *)
(***************************************************************************)
\* Names referred to by the descriptors of a header.
DescriptorNames(header) ==
    {partition_name(header.descriptors[i]) :
        i \in 1..Len(header.descriptors)} \ {None}

\* A check that takes only the loaded vbmeta images as protected.
UnprotectedPartitions_LoadedOnly(required, headers) ==
    (iter_boot(required) \cup iter_vbmeta(required)) \ DOMAIN headers

\* critical_partitions.difference(&avb_partitions)
UnprotectedPartitions(required, headers) ==
    LET critical_partitions == iter_boot(required) \cup iter_vbmeta(required)
        avb_partitions ==
            DOMAIN headers
            \cup UNION {DescriptorNames(headers[v]) : v \in DOMAIN headers}
    IN  critical_partitions \ avb_partitions

(***************************************************************************)
(* get_vbmeta_patch_order                                                  *)
(***************************************************************************)
\* A condition that takes partitions that are not in the pool.
IsDependency_NotInPool(images, headers, name) ==
    name \in DOMAIN headers \/ name \notin DOMAIN images

\* A condition that takes only Modified entries beside the vbmeta images.
IsDependency_ModifiedOnly(images, headers, name) ==
    /\ name \in DOMAIN images
    /\ (name \in DOMAIN headers \/ images[name].state = "Modified")

\* The condition under which a descriptor's partition becomes a dependency.
IsDependency(images, headers, name) ==
    /\ name \in DOMAIN images
    /\ (name \in DOMAIN headers \/ images[name].state /= "Extracted")

\* dep_graph: vbmeta name -> set of the partitions it depends on.
DepGraph(images, headers) ==
    [v \in DOMAIN headers |->
        {n \in DescriptorNames(headers[v]) : IsDependency(images, headers, n)}]

\* The vbmeta images no vbmeta image depends on.
Roots(dep_graph) ==
    {n \in DOMAIN dep_graph : ~ \E v \in DOMAIN dep_graph : n \in dep_graph[v]}

\* A sort that is entered whatever the number of roots.
RootsRejected_Never(roots) == FALSE

\* The check on the number of roots made before the sort.
RootsRejected(roots) == Cardinality(roots) > 1

\* TopologicalSort::add_dependency(prec, succ) on the map top:
\* node -> [num_prec, succ].
add_dependency(top, prec, succ) ==
    LET registered == prec \in DOMAIN top /\ succ \in top[prec].succ
        t1 == IF prec \in DOMAIN top
              THEN [top EXCEPT ![prec].succ = @ \cup {succ}]
              ELSE top @@ (prec :> [num_prec |-> 0, succ |-> {succ}])
        t2 == IF succ \in DOMAIN t1
              THEN [t1 EXCEPT ![succ].num_prec = @ + 1]
              ELSE t1 @@ (succ :> [num_prec |-> 1, succ |-> {}])
    IN  IF registered THEN top ELSE t2

\* The dependency given the wrong way round.
TopoEdge_Reversed(dep, name) == <<name, dep>>

\* The dependency the sort is given for "name depends on dep".
TopoEdge(dep, name) == <<dep, name>>

\* The loop that feeds every (dep, name) pair of dep_graph to the sort.
RECURSIVE AddDependencies(_, _)
AddDependencies(top, pairs) ==
    IF pairs = {} THEN top
    ELSE LET p == CHOOSE p \in pairs : TRUE
         IN  AddDependencies(add_dependency(top, p[1], p[2]), pairs \ {p})

BuildTopo(dep_graph) ==
    AddDependencies([x \in {} |-> [num_prec |-> 0, succ |-> {}]],
                    UNION {{TopoEdge(dep, name) : dep \in dep_graph[name]} :
                              name \in DOMAIN dep_graph})

\* TopologicalSort::remove, called by pop.
topo_remove(top, prec) ==
    LET rest == DOMAIN top \ {prec}
    IN  [n \in rest |->
            IF n \in top[prec].succ
            THEN [top[n] EXCEPT !.num_prec = @ - 1]
            ELSE top[n]]

\* A loop that stops, instead of failing, when pop returns None.
RECURSIVE PopAll_Break(_, _, _)
PopAll_Break(top, dep_graph, order) ==
    IF DOMAIN top = {} THEN {[ok |-> TRUE, err |-> NoError, order |-> order]}
    ELSE LET ready == {n \in DOMAIN top : top[n].num_prec = 0}
         IN  IF ready = {}
             THEN {[ok |-> TRUE, err |-> NoError, order |-> order]}
             ELSE UNION {PopAll_Break(
                             topo_remove(top, item),
                             Restrict(dep_graph, DOMAIN dep_graph \ {item}),
                             IF item \in DOMAIN dep_graph
                             THEN Append(order, <<item, dep_graph[item]>>)
                             ELSE order) : item \in ready}

\* The while loop over topo.pop(): every result the loop can return, over
\* the orders in which pop may pick among the nodes without predecessors.
RECURSIVE PopAll(_, _, _)
PopAll(top, dep_graph, order) ==
    IF DOMAIN top = {} THEN {[ok |-> TRUE, err |-> NoError, order |-> order]}
    ELSE LET ready == {n \in DOMAIN top : top[n].num_prec = 0}
         IN  IF ready = {}
             THEN {[ok |-> FALSE, err |-> Error("cycle", None),
                    order |-> <<>>]}
             ELSE UNION {PopAll(topo_remove(top, item),
                                Restrict(dep_graph, DOMAIN dep_graph \ {item}),
                                IF item \in DOMAIN dep_graph
                                THEN Append(order, <<item, dep_graph[item]>>)
                                ELSE order) : item \in ready}

\* Every result get_vbmeta_patch_order can return for a pool and the loaded
\* headers.
get_vbmeta_patch_order(images, headers) ==
    LET dep_graph == DepGraph(images, headers)
    IN  IF RootsRejected(Roots(dep_graph))
        THEN {[ok |-> FALSE, err |-> Error("multiple_roots", None),
               order |-> <<>>]}
        ELSE PopAll(BuildTopo(dep_graph), dep_graph, <<>>)

(***************************************************************************)
(* update_security_descriptors, cmdline_prefix, update_metadata_descriptors *)
(***************************************************************************)
\* Iterator::find over a sequence: the first of the indices found, 0 if
\* there is none.
FirstIndex(found) ==
    IF found = {} THEN 0
    ELSE CHOOSE i \in found : \A j \in found : i <= j

\* An update that copies whatever descriptor the unsigned child has for
\* itself and lets every other case through.
update_security_descriptors_Lenient(parent_header, child_header, parent_name, child_name) ==
    LET Named(descs) ==
            {i \in 1..Len(descs) : partition_name(descs[i]) = child_name}
        pi == FirstIndex(Named(parent_header.descriptors))
        ci == FirstIndex(Named(child_header.descriptors))
    IN  [ok |-> TRUE, err |-> NoError,
         header |->
            IF pi > 0 /\ ci > 0 /\ child_header.public_key = NoKey
            THEN [parent_header EXCEPT
                     !.descriptors[pi] = child_header.descriptors[ci]]
            ELSE parent_header]

\* An update that leaves the parent's descriptor as it is.
update_security_descriptors_Keep(parent_header, child_header, parent_name, child_name) ==
    [ok |-> TRUE, err |-> NoError, header |-> parent_header]

update_security_descriptors(parent_header, child_header, parent_name, child_name) ==
    LET Named(descs) ==
            {i \in 1..Len(descs) : partition_name(descs[i]) = child_name}
        pi == FirstIndex(Named(parent_header.descriptors))
        ci == FirstIndex(Named(child_header.descriptors))
        parent_descriptor == parent_header.descriptors[pi]
        child_descriptor == child_header.descriptors[ci]
        Fail(kind) ==
            [ok |-> FALSE, err |-> Error(kind, child_name),
             header |-> parent_header]
        Ok(d) ==
            [ok |-> TRUE, err |-> NoError,
             header |-> [parent_header EXCEPT !.descriptors[pi] = d]]
    IN  IF pi = 0 THEN Fail("panic")
        ELSE IF child_header.public_key = NoKey
        THEN IF ci = 0 THEN Fail("no_self_descriptor")
             ELSE IF \/ /\ parent_descriptor.type = "Hash"
                        /\ child_descriptor.type = "Hash"
                     \/ /\ parent_descriptor.type = "HashTree"
                        /\ child_descriptor.type = "HashTree"
             THEN Ok(child_descriptor)
             ELSE Fail("descriptor_mismatch")
        ELSE IF parent_descriptor.type = "ChainPartition"
        THEN Ok([parent_descriptor EXCEPT !.value = child_header.public_key])
        ELSE Fail("not_chain")

NoPrefix == [some |-> FALSE, prefix |-> <<>>]

\* A prefix function that takes the empty text before a leading '=' too.
cmdline_prefix_AllowEmpty(cmdline) ==
    LET i == FirstIndex({j \in 1..Len(cmdline) : cmdline[j] = "="})
    IN  IF i = 0 THEN NoPrefix
        ELSE [some |-> TRUE, prefix |-> SubSeq(cmdline, 1, i - 1)]

\* cmdline.split_once('='): the text before the first '=', if it is not
\* empty.  A command line is a sequence of characters.
cmdline_prefix(cmdline) ==
    LET i == FirstIndex({j \in 1..Len(cmdline) : cmdline[j] = "="})
    IN  IF i = 0 THEN NoPrefix
        ELSE IF i = 1 THEN NoPrefix
        ELSE [some |-> TRUE, prefix |-> SubSeq(cmdline, 1, i - 1)]

\* An iteration that appends the child's descriptor whatever the parent has.
MergeDescriptor_AlwaysAppend(descs, cd) ==
    IF cd.type \in {"Property", "KernelCmdline"} THEN Append(descs, cd)
    ELSE descs

\* One iteration of the loop of update_metadata_descriptors.
MergeDescriptor(descs, cd) ==
    IF cd.type = "Property"
    THEN LET Same(d) == d.type = "Property" /\ d.key = cd.key
             i == FirstIndex({j \in 1..Len(descs) : Same(descs[j])})
         IN  IF i > 0 THEN [descs EXCEPT ![i].value = cd.value]
             ELSE Append(descs, cd)
    ELSE IF cd.type = "KernelCmdline"
    THEN LET prefix == cmdline_prefix(cd.cmdline)
             Same(d) == /\ d.type = "KernelCmdline"
                        /\ cmdline_prefix(d.cmdline) = prefix
             i == FirstIndex({j \in 1..Len(descs) : Same(descs[j])})
         IN  IF ~prefix.some THEN descs
             ELSE IF i > 0 THEN [descs EXCEPT ![i].cmdline = cd.cmdline]
             ELSE Append(descs, cd)
    ELSE descs

RECURSIVE MergeDescriptors(_, _)
MergeDescriptors(descs, child_descs) ==
    IF child_descs = <<>> THEN descs
    ELSE MergeDescriptors(MergeDescriptor(descs, Head(child_descs)),
                          Tail(child_descs))

update_metadata_descriptors(parent_header, child_header) ==
    IF child_header.public_key /= NoKey THEN parent_header
    ELSE [parent_header EXCEPT
            !.descriptors = MergeDescriptors(@, child_header.descriptors)]

(***************************************************************************)
(* update_vbmeta_headers: the body of the loop, for one element of order.   *)
(***************************************************************************)
\* A check that lets any flags through.
CheckFlags_Ignore(parent_header, name, clear) ==
    [ok |-> TRUE, err |-> NoError, header |-> parent_header]

\* The check of Header::flags.
CheckFlags(parent_header, name, clear) ==
    IF parent_header.flags /= 0
    THEN IF clear
         THEN [ok |-> TRUE, err |-> NoError,
               header |-> [parent_header EXCEPT !.flags = 0]]
         ELSE [ok |-> FALSE, err |-> Error("flags", name),
               header |-> parent_header]
    ELSE [ok |-> TRUE, err |-> NoError, header |-> parent_header]

\* The loop over deps, in the iteration order deps_seq.
RECURSIVE UpdateDescriptors(_, _, _, _)
UpdateDescriptors(images, parent_header, name, deps_seq) ==
    IF deps_seq = <<>>
    THEN [ok |-> TRUE, err |-> NoError, header |-> parent_header]
    ELSE LET dep == Head(deps_seq)
             header == images[dep].hdr
             r == update_security_descriptors(parent_header, header, name, dep)
         IN  IF dep \notin DOMAIN images
             THEN [ok |-> FALSE, err |-> Error("panic", dep),
                   header |-> parent_header]
             ELSE IF ~r.ok THEN r
             ELSE UpdateDescriptors(
                      images, update_metadata_descriptors(r.header, header),
                      name, Tail(deps_seq))

\* A test that looks at the flags only.
NeedsSigning_FlagsOnly(parent_header, orig_parent_header) ==
    parent_header.flags /= orig_parent_header.flags

\* Whether the header is signed and its image rewritten.
NeedsSigning(parent_header, orig_parent_header) ==
    parent_header /= orig_parent_header

\* A signing step that leaves the header's key as it was.
Sign_KeepKey(header) == header

\* Header::set_algo_for_key and Header::sign with key_avb.
Sign(header) == [header EXCEPT !.public_key = K_AVB]

\* The header after the updates, before signing.
UpdatedHeader(images, headers, name, deps_seq, clear) ==
    LET f == CheckFlags(headers[name], name, clear)
    IN  IF ~f.ok THEN f
        ELSE UpdateDescriptors(images, f.header, name, deps_seq)

VARIABLES
    pc,                 \* position of the run
    manifest,           \* partition names of the input payload's manifest
    external_images,    \* names given with --replace (keys of the map)
    clear_vbmeta_flags, \* --clear-vbmeta-flags
    input_files,        \* the image pool: name -> InputFile
    vbmeta_headers,     \* name -> Header, loaded by load_vbmeta_images
    payload_headers,    \* the headers as loaded, before any update
    vbmeta_order,       \* result of get_vbmeta_patch_order
    order_idx,          \* next element of vbmeta_order to update
    written_files,      \* every file some step has written to
    signed,             \* names whose vbmeta header was signed in this run
    new_payload,        \* images of the payload written: name -> Header
    output,             \* the file at the output path
    steps,              \* steps of patch_subcommand that have succeeded
    err,                \* error the run ended with
    verify_result,      \* result of verify_subcommand on the output
    cancel_signal,      \* the shared AtomicBool
    cancelled_at,       \* position of the run when the flag was set
    footers,            \* vbmeta images load_vbmeta_images found a footer in
    modified_operations,\* compressed_files: name -> operations recompressed
    copied_from,        \* name -> sources of the data of the new payload
    paths,              \* entries of the input archive: name -> declared size
    zip_idx,            \* position of the loop over the entries
    zip_writer,         \* entries started in the output archive
    entries,            \* ZipEntry {name, offset, size} of the entries written
    metadata,           \* entry the OTA metadata was parsed from
    properties,         \* Option<String>: the properties of the new payload
    last_entry_used_zip64,
    added_metadata,     \* entries ota::add_metadata appended to zip_writer
    metadata_offset,    \* Option<u64>: the offset handed to ota::add_metadata
    header_locked,      \* manifest: name -> partition info and operations
    compressed_files,   \* name -> indices of the operations recompressed
    partial_results,    \* name -> what compress_modified_image returned
    partition_index,    \* PayloadWriter: index of the current partition
    operation_index,    \* PayloadWriter: index of the current operation
    copies,             \* the copies into the PayloadWriter, in order
    tasks,              \* parallel tasks: name -> position and data
    mutex,              \* name of the task that holds the pool's mutex
    directory           \* extracted images: name -> SHA-256 of the file

vars == <<pc, manifest, external_images, clear_vbmeta_flags, input_files,
          vbmeta_headers, payload_headers, vbmeta_order, order_idx,
          written_files, signed, new_payload, output, steps, err,
          verify_result, cancel_signal, cancelled_at, footers,
          modified_operations, copied_from, paths,
          zip_idx, zip_writer, entries, metadata, properties,
          last_entry_used_zip64, added_metadata, metadata_offset,
          header_locked, compressed_files,
          partial_results, partition_index, operation_index, copies,
          tasks, mutex, directory>>

\* The state of the parallel regions.
par_vars == <<tasks, mutex, directory>>

\* The state of the compression and of the PayloadWriter loop.
payload_vars ==
    <<header_locked, compressed_files, partial_results, partition_index,
      operation_index, copies>>

\* The state of the loop over the archive's entries, and the rest.
zip_vars ==
    <<paths, zip_idx, zip_writer, entries, metadata, properties,
      last_entry_used_zip64, added_metadata, metadata_offset>>

patch_vars ==
    <<manifest, external_images, clear_vbmeta_flags, input_files,
      vbmeta_headers, payload_headers, vbmeta_order, order_idx,
      written_files, signed, new_payload, output, steps, verify_result,
      cancel_signal, cancelled_at, footers, modified_operations,
      copied_from, payload_vars, par_vars>>

\* A u64 as four 16-bit limbs, most significant first.
U64(w3, w2, w1, w0) == <<w3, w2, w1, w0>>

\* Option<u64>
NoneU64 == [some |-> FALSE, value |-> U64(0, 0, 0, 0)]
SomeU64(v) == [some |-> TRUE, value |-> v]

\* The limbs k..4 of a + b, with the carry out of limb k.
RECURSIVE AddLimbs(_, _, _)
AddLimbs(a, b, k) ==
    IF k > 4 THEN [carry |-> 0, limbs |-> <<>>]
    ELSE LET low == AddLimbs(a, b, k + 1)
             sum == a[k] + b[k] + low.carry
         IN  [carry |-> sum \div 65536,
              limbs |-> <<sum % 65536>> \o low.limbs]

\* u64::checked_add
checked_add(a, b) ==
    LET r == AddLimbs(a, b, 1)
    IN  IF r.carry /= 0 THEN NoneU64 ELSE SomeU64(r.limbs)

Empty == [x \in {} |-> Unparsed]

Init ==
    /\ pc = "patch_subcommand"
    /\ manifest \in Manifests
    /\ external_images \in
         {S \in SUBSET PartitionNames : Cardinality(S) <= MaxExternal}
    /\ clear_vbmeta_flags \in BOOLEAN
    /\ input_files = Empty
    /\ vbmeta_headers = Empty
    /\ payload_headers = Empty
    /\ vbmeta_order = <<>>
    /\ order_idx = 0
    /\ written_files = {}
    /\ signed = {}
    /\ new_payload = Empty
    /\ output = "original"
    /\ steps = {}
    /\ err = NoError
    /\ verify_result = "none"
    /\ cancel_signal = FALSE
    /\ cancelled_at = None
    /\ footers = {}
    /\ modified_operations = Empty
    /\ copied_from = Empty
    /\ paths = <<>>
    /\ zip_idx = 0
    /\ zip_writer = <<>>
    /\ entries = <<>>
    /\ metadata = None
    /\ properties = None
    /\ last_entry_used_zip64 = FALSE
    /\ added_metadata = <<>>
    /\ metadata_offset = NoneU64
    /\ header_locked = Empty
    /\ compressed_files = Empty
    /\ partial_results = Empty
    /\ partition_index = 0
    /\ operation_index = 0
    /\ copies = <<>>
    /\ tasks = Empty
    /\ mutex = None
    /\ directory = Empty


(***************************************************************************)
(* Failure: the error is propagated up to patch_subcommand; the pool, the  *)
(* headers and the temp output file are dropped with their scopes.          *)
(***************************************************************************)
Fail(e) ==
    /\ pc' = "failed"
    /\ err' = e
    /\ input_files' = Empty
    /\ vbmeta_headers' = Empty
    /\ vbmeta_order' = <<>>
    /\ order_idx' = 0
    /\ UNCHANGED <<manifest, external_images, clear_vbmeta_flags,
                   payload_headers, written_files, signed, new_payload,
                   output, steps, verify_result,
                   cancel_signal, cancelled_at, footers, zip_vars, payload_vars, par_vars,
                   modified_operations, copied_from>>

\* Any read, write, seek or signing step can fail wherever the run does I/O.
IoPositions ==
    {"patch_subcommand", "patch_ota_zip", "patch_ota_payload",
     "open_input_files", "patch_boot_images", "patch_system_image",
     "system_patcher", "load_vbmeta_images", "update_vbmeta_headers",
     "compress_image", "write_payload", "add_metadata", "zip_finish",
     "sign", "verify_metadata", "persist"}

\* patch_system_image does I/O of its own only to copy a replacement image;
\* without a system image it returns before any.
IoPossible ==
    pc = "patch_system_image" =>
       \E n \in iter_system(RequiredImages(manifest)) :
          n \in DOMAIN input_files /\ input_files[n].state = "External"

IoFailure ==
    /\ pc \in IoPositions
    /\ IoPossible
    /\ pc' = "failed"
    /\ err' = Error("io", None)
    /\ input_files' = Empty
    /\ vbmeta_headers' = Empty
    /\ payload_headers' = Empty
    /\ vbmeta_order' = <<>>
    /\ order_idx' = 0
    /\ new_payload' = Empty
    /\ UNCHANGED <<manifest, external_images, clear_vbmeta_flags,
                   written_files, signed, output, steps, verify_result,
                   cancel_signal, cancelled_at, footers, zip_vars, payload_vars, par_vars,
                   modified_operations, copied_from>>

(***************************************************************************)
(* patch_subcommand, up to the call of patch_ota_zip: the output is written *)
(* to a NamedTempFile beside the output path.                               *)
(***************************************************************************)
TempOutput == [kind |-> "temp", name |-> "output", seq |-> 1]

PatchSubcommandBegin ==
    /\ pc = "patch_subcommand"
    /\ pc' = "patch_ota_zip"
    /\ steps' = {"temp_output"}
    /\ written_files' = written_files \cup {TempOutput}
    /\ UNCHANGED <<manifest, external_images, clear_vbmeta_flags, input_files,
                   vbmeta_headers, payload_headers, vbmeta_order, order_idx,
                   signed, new_payload, output, err, verify_result,
                   cancel_signal, cancelled_at, footers, zip_vars, payload_vars, par_vars,
                   modified_operations, copied_from>>

\* patch_ota_zip up to the payload entry: the check for missing entries and
\* the entries sorted before the payload.
PatchOtaZipBegin ==
    /\ pc = "patch_ota_zip"
    /\ \E entries_present \in BOOLEAN :
          IF entries_present
          THEN /\ pc' = "patch_ota_payload"
               /\ UNCHANGED <<manifest, external_images, clear_vbmeta_flags,
                              input_files, vbmeta_headers, payload_headers,
                              vbmeta_order, order_idx, written_files, signed,
                              new_payload, output, steps, err, verify_result,
                              cancel_signal, cancelled_at, footers, zip_vars, payload_vars, par_vars,
                              modified_operations, copied_from>>
          ELSE Fail(Error("missing_entries", None))

(***************************************************************************)
(* patch_ota_payload                                                       *)
(***************************************************************************)
\* A check that finds every replacement name in the manifest.
NonExistent_None == {}

\* The external names that are no partition of the manifest.
NonExistent == external_images \ manifest

PatchOtaPayloadBegin ==
    /\ pc = "patch_ota_payload"
    /\ \E is_full_ota \in BOOLEAN :
          IF ~is_full_ota THEN Fail(Error("delta", None))
          ELSE IF NonExistent /= {}
          THEN \E n \in NonExistent : Fail(Error("non_existent", n))
          ELSE /\ pc' = "open_input_files"
               /\ UNCHANGED <<manifest, external_images, clear_vbmeta_flags,
                              input_files, vbmeta_headers, payload_headers,
                              vbmeta_order, order_idx, written_files, signed,
                              new_payload, output, steps, err, verify_result,
                              cancel_signal, cancelled_at, footers, zip_vars, payload_vars, par_vars,
                              modified_operations, copied_from>>

\* The functions that pick, for every n, one element of options[n].
Choices(options) ==
    {f \in [DOMAIN options -> UNION {options[n] : n \in DOMAIN options}] :
        \A n \in DOMAIN options : f[n] \in options[n]}

\* all_images of open_input_files.
\* A pool of the required images only.
AllImages_RequiredOnly == RequiredImages(manifest)

\* all_images: the required images and the replacement images.
AllImages == RequiredImages(manifest) \cup external_images

(***************************************************************************)
(* The cancel signal.  It is set from outside the run, at any moment of a  *)
(* long-running step; the steps that were handed the flag poll it and      *)
(* return a cancel error once they see it.                                 *)
(***************************************************************************)
\* Positions of the long-running steps: extraction, patching, copying,
\* hashing, signing of vbmeta images, compression, writing the payload and
\* signing the archive.
CancelPositions ==
    {"open_input_files", "patch_boot_images", "patch_system_image",
     "system_patcher", "update_vbmeta_headers", "compress_image",
     "write_payload", "sign"}

SetCancel ==
    /\ pc \in CancelPositions
    /\ ~cancel_signal
    /\ cancel_signal' = TRUE
    /\ cancelled_at' = pc
    /\ UNCHANGED <<pc, manifest, external_images, clear_vbmeta_flags,
                   input_files, vbmeta_headers, payload_headers,
                   vbmeta_order, order_idx, written_files, signed,
                   new_payload, output, steps, err, verify_result, footers,
                   zip_vars, payload_vars, par_vars,
                   modified_operations, copied_from>>

\* A run none of whose steps is handed the flag.
Polls_Never == FALSE

\* The step at the current position polls the flag: extract_image of an
\* image that is not replaced, boot::patch_boot_images, stream::copy of a
\* replacement system image, system::patch_system_image, compress_image and
\* the PayloadWriter loop.
Polls ==
    \/ pc = "open_input_files" /\ AllImages \ external_images /= {}
    \/ pc = "patch_boot_images"
    \/ /\ pc = "patch_system_image"
       /\ \E n \in iter_system(RequiredImages(manifest)) :
             input_files[n].state = "External"
    \/ pc \in {"system_patcher", "compress_image", "write_payload"}

Observes == cancel_signal /\ Polls

\* The polling step returns the cancel error, which is propagated like any
\* other error.
ObserveCancel ==
    /\ Observes
    /\ pc' = "failed"
    /\ err' = Error("cancel", None)
    /\ input_files' = Empty
    /\ vbmeta_headers' = Empty
    /\ payload_headers' = Empty
    /\ vbmeta_order' = <<>>
    /\ order_idx' = 0
    /\ new_payload' = Empty
    /\ UNCHANGED <<manifest, external_images, clear_vbmeta_flags,
                   written_files, signed, output, steps, verify_result,
                   cancel_signal, cancelled_at, footers, zip_vars, payload_vars, par_vars,
                   modified_operations, copied_from>>

\* The header a later avb::load_image reads from an opened image: known for a
\* replacement image now, parsed later for the vbmeta images, and never read
\* from an extracted boot or system image before its patcher rewrites it.
OpenedHeaders(name) ==
    IF name \in external_images /\ ~is_vbmeta(name)
    THEN ExternalHeaders(name) ELSE {Unparsed}

OpenedFile(name, hdr) ==
    IF name \in external_images
    THEN InputFile(ExternalFile(name), "External", hdr)
    ELSE InputFile(TempFile(name, 1), "Extracted", hdr)

OpenInputFiles ==
    /\ pc = "open_input_files"
    /\ ~Observes
    /\ \E hdrs \in Choices([n \in AllImages |-> OpenedHeaders(n)]) :
          input_files' = [n \in AllImages |-> OpenedFile(n, hdrs[n])]
    /\ written_files' =
          written_files
          \cup {TempFile(n, 1) : n \in AllImages \ external_images}
    /\ pc' = "patch_boot_images"
    /\ UNCHANGED <<manifest, external_images, clear_vbmeta_flags,
                   vbmeta_headers, payload_headers, vbmeta_order, order_idx,
                   signed, new_payload, output, steps, err, verify_result,
                   cancel_signal, cancelled_at, footers, zip_vars, payload_vars, par_vars,
                   modified_operations, copied_from>>

\* A write-open callback that hands out the pool entry's own file.
BootWriteFile_InPlace(name, pool) == pool[name].file

\* The file the write-open callback of patch_boot_images hands out.
BootWriteFile(name, pool) == FreshTemp(name, pool)

\* The sets of images boot::patch_boot_images can open for writing: not
\* every image is necessarily patched, but the OtaCertPatcher is always
\* applied to a boot image.
BootTargets(required) == (SUBSET iter_boot(required)) \ {{}}

PatchBootImages ==
    /\ pc = "patch_boot_images"
    /\ ~Observes
    /\ IF BootTargets(RequiredImages(manifest)) = {}
       THEN Fail(Error("no_targets", None))
       ELSE /\ \E targets \in BootTargets(RequiredImages(manifest)) :
               \E hdrs \in Choices([n \in targets |-> PatchedHeaders(n)]) :
                  /\ input_files' =
                        [n \in DOMAIN input_files |->
                            IF n \in targets
                            THEN InputFile(BootWriteFile(n, input_files),
                                           "Modified", hdrs[n])
                            ELSE input_files[n]]
                  /\ written_files' =
                        written_files
                        \cup {BootWriteFile(n, input_files) : n \in targets}
            /\ pc' = "retain_boot"
            /\ UNCHANGED <<manifest, external_images, clear_vbmeta_flags,
                           vbmeta_headers, payload_headers, vbmeta_order,
                           order_idx, signed, new_payload, output, steps,
                           err, verify_result, cancel_signal, cancelled_at,
                           footers, zip_vars, payload_vars, par_vars,
                           modified_operations, copied_from>>

\* input_files.retain(...) after the boot phase.
KeptAfterBoot(name, f) == ~(f.state = "Extracted" /\ is_boot(name))

RetainBoot ==
    /\ pc = "retain_boot"
    /\ input_files' =
          Restrict(input_files,
                   {n \in DOMAIN input_files : KeptAfterBoot(n, input_files[n])})
    /\ pc' = "patch_system_image"
    /\ UNCHANGED <<manifest, external_images, clear_vbmeta_flags,
                   vbmeta_headers, payload_headers, vbmeta_order, order_idx,
                   written_files, signed, new_payload, output, steps, err, verify_result,
                   cancel_signal, cancelled_at, footers, zip_vars, payload_vars, par_vars,
                   modified_operations, copied_from>>

\* A patch_system_image that marks an extracted image as a replacement.
SystemWorkFile_MarkExternal(input_file, name, pool) ==
    IF input_file.state = "Extracted"
    THEN InputFile(input_file.file, "External", input_file.hdr)
    ELSE input_file

\* A patch_system_image that hands the pool entry's own file to the patcher.
SystemWorkFile_InPlace(input_file, name, pool) == input_file

\* patch_system_image before the call of the patcher: an external file is
\* copied to a temp file first.
SystemWorkFile(input_file, name, pool) ==
    IF input_file.state = "External"
    THEN InputFile(FreshTemp(name, pool), "Extracted", input_file.hdr)
    ELSE input_file

PatchSystemImage ==
    /\ pc = "patch_system_image"
    /\ ~Observes
    /\ IF iter_system(RequiredImages(manifest)) = {}
       THEN Fail(Error("no_system", None))
       ELSE \E target \in iter_system(RequiredImages(manifest)) :
              LET work == SystemWorkFile(input_files[target], target,
                                         input_files)
              IN  /\ input_files' = [input_files EXCEPT ![target] = work]
                  /\ written_files' =
                        IF work.file /= input_files[target].file
                        THEN written_files \cup {work.file}
                        ELSE written_files
                  /\ pc' = "system_patcher"
                  /\ UNCHANGED <<manifest, external_images,
                                 clear_vbmeta_flags, vbmeta_headers,
                                 payload_headers, vbmeta_order, order_idx,
                                 signed, new_payload, output, steps, err, verify_result,
                                 cancel_signal, cancelled_at, footers,
                                 zip_vars, payload_vars, par_vars,
                                 modified_operations, copied_from>>

\* system::patch_system_image rewrites the entry's file in place.
SystemPatcher ==
    /\ pc = "system_patcher"
    /\ ~Observes
    /\ \E target \in iter_system(RequiredImages(manifest)) :
       \E hdr \in PatchedHeaders(target) :
          /\ input_files' =
                [input_files EXCEPT
                    ![target] = InputFile(@.file, "Modified", hdr)]
          /\ written_files' = written_files \cup {input_files[target].file}
    /\ pc' = "load_vbmeta_images"
    /\ UNCHANGED <<manifest, external_images, clear_vbmeta_flags,
                   vbmeta_headers, payload_headers, vbmeta_order, order_idx,
                   signed, new_payload, output, steps, err, verify_result,
                   cancel_signal, cancelled_at, footers, zip_vars, payload_vars, par_vars,
                   modified_operations, copied_from>>

(***************************************************************************)
(* The AVB phase.                                                          *)
(***************************************************************************)
\* A load_vbmeta_images that accepts images with a footer.
FooterRejected_Never(found) == FALSE

\* if let Some(f) = footer { bail!(..) }
FooterRejected(found) == found /= {}

\* avb::load_image parses every vbmeta image of the pool; the images that
\* carry a footer are an input, read here for the first time.
LoadVbmetaImages ==
    /\ pc = "load_vbmeta_images"
    /\ \E found \in SUBSET iter_vbmeta(RequiredImages(manifest)) :
          /\ footers' = found
          /\ IF FooterRejected(found)
             THEN /\ \E n \in found : err' = Error("footer", n)
                  /\ pc' = "failed"
                  /\ input_files' = Empty
                  /\ UNCHANGED <<manifest, external_images,
                                 clear_vbmeta_flags, vbmeta_headers,
                                 payload_headers, vbmeta_order, order_idx,
                                 written_files, signed, new_payload, output,
                                 steps, verify_result, cancel_signal,
                                 cancelled_at, zip_vars, payload_vars, par_vars,
                                 modified_operations, copied_from>>
             ELSE \E hdrs \in Choices([n \in iter_vbmeta(RequiredImages(manifest))
                                          |-> VbmetaInputHeaders(n)]) :
                     /\ vbmeta_headers' = hdrs
                     /\ payload_headers' = hdrs
                     /\ input_files' =
                           [n \in DOMAIN input_files |->
                               IF n \in DOMAIN hdrs
                               THEN [input_files[n] EXCEPT !.hdr = hdrs[n]]
                               ELSE input_files[n]]
                     /\ pc' = "ensure_partitions_protected"
                     /\ UNCHANGED <<manifest, external_images,
                                    clear_vbmeta_flags, vbmeta_order,
                                    order_idx, written_files, signed,
                                    new_payload, output, steps, err,
                                    verify_result, cancel_signal,
                                    cancelled_at, zip_vars, payload_vars, par_vars,
                                    modified_operations, copied_from>>

EnsurePartitionsProtected ==
    /\ pc = "ensure_partitions_protected"
    /\ IF UnprotectedPartitions(RequiredImages(manifest), vbmeta_headers) /= {}
       THEN Fail(Error("unprotected", None))
       ELSE /\ pc' = "get_vbmeta_patch_order"
            /\ UNCHANGED <<manifest, external_images, clear_vbmeta_flags,
                           input_files, vbmeta_headers, payload_headers,
                           vbmeta_order, order_idx, written_files, signed,
                           new_payload, output, steps, err, verify_result,
                           cancel_signal, cancelled_at, footers, zip_vars, payload_vars, par_vars,
                           modified_operations, copied_from>>

GetVbmetaPatchOrder ==
    /\ pc = "get_vbmeta_patch_order"
    /\ \E r \in get_vbmeta_patch_order(input_files, vbmeta_headers) :
          IF ~r.ok THEN Fail(r.err)
          ELSE /\ vbmeta_order' = r.order
               /\ order_idx' = 1
               /\ pc' = "update_vbmeta_headers"
               /\ UNCHANGED <<manifest, external_images, clear_vbmeta_flags,
                              input_files, vbmeta_headers, payload_headers,
                              written_files, signed, new_payload, output, steps, err,
                              verify_result, cancel_signal, cancelled_at,
                              footers, zip_vars, payload_vars, par_vars,
                              modified_operations, copied_from>>

\* The file a signed vbmeta image is written to.
VbmetaWriteFile(name, pool) == FreshTemp(name, pool)

\* One iteration of the loop of update_vbmeta_headers.
UpdateVbmetaHeaders ==
    /\ pc = "update_vbmeta_headers"
    /\ order_idx <= Len(vbmeta_order)
    /\ LET name == vbmeta_order[order_idx][1]
           deps == vbmeta_order[order_idx][2]
       IN  \E deps_seq \in Perms(deps) :
              LET r == UpdatedHeader(input_files, vbmeta_headers, name,
                                     deps_seq, clear_vbmeta_flags)
              IN  IF ~r.ok THEN Fail(r.err)
                  ELSE IF NeedsSigning(r.header, vbmeta_headers[name])
                  THEN /\ vbmeta_headers' =
                             [vbmeta_headers EXCEPT ![name] = Sign(r.header)]
                       /\ input_files' =
                             [input_files EXCEPT
                                ![name] = InputFile(
                                    VbmetaWriteFile(name, input_files),
                                    "Modified", Sign(r.header))]
                       /\ written_files' =
                             written_files
                             \cup {VbmetaWriteFile(name, input_files)}
                       /\ signed' = signed \cup {name}
                       /\ order_idx' = order_idx + 1
                       /\ UNCHANGED <<pc, manifest, external_images,
                                      clear_vbmeta_flags, payload_headers,
                                      vbmeta_order, new_payload, output,
                                      steps, err, verify_result,
                                      cancel_signal, cancelled_at, footers,
                                      zip_vars, payload_vars, par_vars,
                                      modified_operations, copied_from>>
                  ELSE /\ vbmeta_headers' =
                             [vbmeta_headers EXCEPT ![name] = r.header]
                       /\ order_idx' = order_idx + 1
                       /\ UNCHANGED <<pc, manifest, external_images,
                                      clear_vbmeta_flags, input_files,
                                      payload_headers, vbmeta_order,
                                      written_files, signed, new_payload,
                                      output, steps, err, verify_result,
                                      cancel_signal, cancelled_at, footers,
                                      zip_vars, payload_vars, par_vars,
                                      modified_operations, copied_from>>

\* A retain after the AVB phase that keeps every entry.
KeptAfterAvb_All(name, f) == TRUE

\* update_vbmeta_headers returns; input_files.retain(...) after the AVB phase.
KeptAfterAvb(name, f) == f.state /= "Extracted"

RetainModified ==
    /\ pc = "update_vbmeta_headers"
    /\ order_idx > Len(vbmeta_order)
    /\ input_files' =
          Restrict(input_files,
                   {n \in DOMAIN input_files : KeptAfterAvb(n, input_files[n])})
    /\ pc' = "compress_image"
    /\ UNCHANGED <<manifest, external_images, clear_vbmeta_flags,
                   vbmeta_headers, payload_headers, vbmeta_order, order_idx,
                   written_files, signed, new_payload, output, steps, err, verify_result,
                   cancel_signal, cancelled_at, footers, zip_vars, payload_vars, par_vars,
                   modified_operations, copied_from>>


(***************************************************************************)
(* Compression, the new payload, and the rest of the archive.              *)
(***************************************************************************)
\* A compression that takes the system image's ranges whatever its origin.
UsesRanges_AnySystem(name) == is_system(name)

\* A compression that is given the ranges for every entry of the pool.
UsesRanges_EveryEntry(name) == TRUE

\* compress_image is given the ranges the system patcher touched only for
\* the system image of the original payload.
UsesRanges(name) == is_system(name) /\ name \notin external_images

\* The operations compress_image can report as recompressed: all of them,
\* or, when it was given ranges and the extents are in order, those of the
\* ranges.
ModifiedOperations(name) ==
    IF UsesRanges(name) THEN {"ranges", "all"} ELSE {"all"}

\* compress_image of every pool entry: each is replaced by a temp file with
\* its compressed chunks.
CompressImages ==
    /\ pc = "compress_image"
    /\ ~Observes
    /\ input_files' =
          [n \in DOMAIN input_files |->
              [input_files[n] EXCEPT !.file = FreshTemp(n, input_files)]]
    /\ written_files' =
          written_files \cup {FreshTemp(n, input_files) : n \in DOMAIN input_files}
    /\ modified_operations' \in
          Choices([n \in DOMAIN input_files |-> ModifiedOperations(n)])
    /\ pc' = "write_payload"
    /\ UNCHANGED <<manifest, external_images, clear_vbmeta_flags,
                   vbmeta_headers, payload_headers, vbmeta_order, order_idx,
                   signed, new_payload, output, steps, err, verify_result,
                   cancel_signal, cancelled_at, footers, zip_vars, payload_vars, par_vars,
                   copied_from>>

\* Where the PayloadWriter loop copies the data of a partition's operations
\* from: the compressed replacement for the operations recompressed, the
\* original payload for the others.
CopiedFrom(name, recompressed) ==
    IF name \notin DOMAIN recompressed THEN {"original"}
    ELSE IF recompressed[name] = "all" THEN {"replacement"}
    ELSE {"replacement", "original"}

\* The image of a partition in the new payload: the pool's if the pool still
\* holds the partition, the original payload's otherwise.
NewImage(name, pool, orig_headers) ==
    IF name \in DOMAIN pool THEN pool[name].hdr ELSE orig_headers[name]

\* The PayloadWriter loop and finish(); patch_ota_payload returns and its
\* pool and headers go out of scope.
WritePayload ==
    /\ pc = "write_payload"
    /\ ~Observes
    /\ new_payload' =
          [n \in DOMAIN input_files \cup DOMAIN payload_headers |->
              NewImage(n, input_files, payload_headers)]
    /\ copied_from' =
          [n \in manifest |-> CopiedFrom(n, modified_operations)]
    /\ input_files' = Empty
    /\ vbmeta_headers' = Empty
    /\ payload_headers' = Empty
    /\ vbmeta_order' = <<>>
    /\ order_idx' = 0
    /\ modified_operations' = Empty
    /\ pc' = "add_metadata"
    /\ UNCHANGED <<manifest, external_images, clear_vbmeta_flags,
                   written_files, signed, output, steps, err, verify_result,
                   cancel_signal, cancelled_at, footers, zip_vars, payload_vars,
                   par_vars>>

\* A patch_subcommand that renames right after signing.
NextPosition_NoVerify(position) ==
    CASE position = "add_metadata" -> "zip_finish"
      [] position = "zip_finish" -> "sign"
      [] position = "sign" -> "persist"
      [] OTHER -> "done"

\* The position after a step of patch_subcommand has succeeded.
NextPosition(position) ==
    CASE position = "add_metadata" -> "zip_finish"
      [] position = "zip_finish" -> "sign"
      [] position = "sign" -> "verify_metadata"
      [] position = "verify_metadata" -> "persist"
      [] OTHER -> "done"

\* The remaining entries and ota::add_metadata; zip_writer.finish();
\* signing_writer.finish(); ota::verify_metadata on the temp file.
FinishStep ==
    /\ pc \in {"add_metadata", "zip_finish", "sign", "verify_metadata"}
    /\ steps' = steps \cup {pc}
    /\ pc' = NextPosition(pc)
    /\ UNCHANGED <<manifest, external_images, clear_vbmeta_flags, input_files,
                   vbmeta_headers, payload_headers, vbmeta_order, order_idx,
                   written_files, signed, new_payload, output, err,
                   verify_result, cancel_signal, cancelled_at, footers,
                   zip_vars, payload_vars, par_vars,
                   modified_operations, copied_from>>

\* set_permissions and temp_writer.persist(output): the rename.
Persist ==
    /\ pc = "persist"
    /\ output' = "patched"
    /\ steps' = steps \cup {pc}
    /\ pc' = NextPosition(pc)
    /\ UNCHANGED <<manifest, external_images, clear_vbmeta_flags, input_files,
                   vbmeta_headers, payload_headers, vbmeta_order, order_idx,
                   written_files, signed, new_payload, err, verify_result,
                   cancel_signal, cancelled_at, footers, zip_vars, payload_vars, par_vars,
                   modified_operations, copied_from>>

(***************************************************************************)
(* verify_subcommand on the archive at the output path, with                *)
(* --public-key-avb the public part of key_avb.  cli::avb::verify_headers   *)
(* walks the descriptors from "vbmeta": a signed header must be signed by   *)
(* the key its parent's chain descriptor lists (the root: by the given      *)
(* key); a partition image absent from the payload is skipped, the root     *)
(* must exist.                                                              *)
(***************************************************************************)
\* The targets a header's descriptors send the walk to, each with the key it
\* is expected to be signed with (NoKey: no expectation).
VerifyTargets(header) ==
    [i \in 1..Len(header.descriptors) |->
        LET d == header.descriptors[i]
        IN  IF d.type = "ChainPartition" THEN <<d.name, d.value>>
            ELSE <<partition_name(d), NoKey>>]

RECURSIVE verify_headers(_, _, _)
verify_headers(images, stack, seen) ==
    IF stack = <<>> THEN TRUE
    ELSE LET name == Head(stack)[1]
             expected_key == Head(stack)[2]
         IN  IF name = None \/ name \in seen
             THEN verify_headers(images, Tail(stack), seen)
             ELSE IF name \notin DOMAIN images
             THEN name /= "vbmeta"
                  /\ verify_headers(images, Tail(stack), seen \cup {name})
             ELSE IF /\ images[name].public_key /= NoKey
                     /\ expected_key /= NoKey
                     /\ images[name].public_key /= expected_key
             THEN FALSE
             ELSE verify_headers(images,
                                 VerifyTargets(images[name]) \o Tail(stack),
                                 seen \cup {name})

VerifySubcommand ==
    /\ pc = "done"
    /\ verify_result' =
          IF verify_headers(new_payload, <<(<<"vbmeta", K_AVB>>)>>, {})
          THEN "ok" ELSE "avb_failed"
    /\ pc' = "verified"
    /\ UNCHANGED <<manifest, external_images, clear_vbmeta_flags, input_files,
                   vbmeta_headers, payload_headers, vbmeta_order, order_idx,
                   written_files, signed, new_payload, output, steps, err,
                   cancel_signal, cancelled_at, footers, zip_vars, payload_vars, par_vars,
                   modified_operations, copied_from>>

Next ==
    \/ PatchSubcommandBegin
    \/ PatchOtaZipBegin
    \/ PatchOtaPayloadBegin
    \/ OpenInputFiles
    \/ PatchBootImages
    \/ RetainBoot
    \/ PatchSystemImage
    \/ SystemPatcher
    \/ LoadVbmetaImages
    \/ EnsurePartitionsProtected
    \/ GetVbmetaPatchOrder
    \/ UpdateVbmetaHeaders
    \/ RetainModified
    \/ CompressImages
    \/ WritePayload
    \/ FinishStep
    \/ Persist
    \/ VerifySubcommand
    \/ IoFailure
    \/ SetCancel
    \/ ObserveCancel

Spec == Init /\ [][Next]_vars

(***************************************************************************)
(* patch_ota_zip in detail: the entries of the input archive, their        *)
(* declared sizes, and the entries started in the output archive.  Here    *)
(* patch_ota_payload is one step that succeeds or fails.                   *)
(***************************************************************************)
PATH_METADATA == "META-INF/com/android/metadata"
PATH_METADATA_PB == "META-INF/com/android/metadata.pb"
PATH_OTACERT == "META-INF/com/android/otacert"
PATH_PAYLOAD == "payload.bin"
PATH_PROPERTIES == "payload_properties.txt"
PATH_OTHER == "care_map.pb"

\* The UTF-8 bytes of an entry name: the strings a BTreeSet<String> compares.
Bytes(path) ==
    CASE path = PATH_METADATA ->
        <<
        77, 69, 84, 65, 45, 73, 78, 70, 47, 99, 111, 109, 47, 97, 110, 100,
        114, 111, 105, 100, 47, 109, 101, 116, 97, 100, 97, 116, 97 >>
      [] path = PATH_METADATA_PB ->
        <<
        77, 69, 84, 65, 45, 73, 78, 70, 47, 99, 111, 109, 47, 97, 110, 100,
        114, 111, 105, 100, 47, 109, 101, 116, 97, 100, 97, 116, 97, 46,
        112, 98 >>
      [] path = PATH_OTACERT ->
        <<
        77, 69, 84, 65, 45, 73, 78, 70, 47, 99, 111, 109, 47, 97, 110, 100,
        114, 111, 105, 100, 47, 111, 116, 97, 99, 101, 114, 116 >>
      [] path = PATH_OTHER ->
        <<
        99, 97, 114, 101, 95, 109, 97, 112, 46, 112, 98 >>
      [] path = PATH_PAYLOAD ->
        <<
        112, 97, 121, 108, 111, 97, 100, 46, 98, 105, 110 >>
      [] path = PATH_PROPERTIES ->
        <<
        112, 97, 121, 108, 111, 97, 100, 95, 112, 114, 111, 112, 101, 114,
        116, 105, 101, 115, 46, 116, 120, 116 >>

\* a < b as str::cmp orders them: byte by byte, a proper prefix first.
RECURSIVE LessFrom(_, _, _)
LessFrom(a, b, k) ==
    IF k > Len(b) THEN FALSE
    ELSE IF k > Len(a) THEN TRUE
    ELSE IF a[k] /= b[k] THEN a[k] < b[k]
    ELSE LessFrom(a, b, k + 1)

StrLess(a, b) == LessFrom(Bytes(a), Bytes(b), 1)

\* An iteration that meets the properties entry before the payload entry.
SortedPaths_PropertiesFirst ==
    << PATH_METADATA, PATH_METADATA_PB, PATH_OTACERT, PATH_OTHER,
       PATH_PROPERTIES, PATH_PAYLOAD >>

\* An iteration that meets the protobuf metadata before the legacy one.
SortedPaths_ProtobufFirst ==
    << PATH_METADATA_PB, PATH_METADATA, PATH_OTACERT, PATH_OTHER,
       PATH_PAYLOAD, PATH_PROPERTIES >>

\* Every entry name of the model, in the order a BTreeSet<String> iterates.
SortedPaths ==
    << PATH_METADATA, PATH_METADATA_PB, PATH_OTACERT, PATH_OTHER,
       PATH_PAYLOAD, PATH_PROPERTIES >>

EntryNames == {SortedPaths[i] : i \in DOMAIN SortedPaths}

\* a >= b on u64 values, from limb k on.
RECURSIVE GeqFrom(_, _, _)
GeqFrom(a, b, k) ==
    IF k > Len(a) THEN TRUE
    ELSE IF a[k] /= b[k] THEN a[k] > b[k]
    ELSE GeqFrom(a, b, k + 1)

GeqU64(a, b) == GeqFrom(a, b, 1)

\* Declared sizes of an input entry: 1024, 2^32 - 2, 2^32 - 1 and 2^32.
Sizes ==
    { U64(0, 0, 0, 1024), U64(0, 0, 65535, 65534), U64(0, 0, 65535, 65535),
      U64(0, 1, 0, 0) }

\* A threshold of 2^32.
ZIP64_THRESHOLD_Pow32 == U64(0, 1, 0, 0)

\* 0xffffffff
ZIP64_THRESHOLD == U64(0, 0, 65535, 65535)

\* let use_zip64 = reader.size() >= 0xffffffff;
use_zip64(size) == GeqU64(size, ZIP64_THRESHOLD)

\* The input archives: any set of the entry names, each with a size.
ZipInit ==
    /\ pc = "patch_ota_zip"
    /\ \E names \in SUBSET EntryNames : paths \in [names -> Sizes]
    /\ zip_idx = 0
    /\ zip_writer = <<>>
    /\ entries = <<>>
    /\ metadata = None
    /\ properties = None
    /\ last_entry_used_zip64 = FALSE
    /\ added_metadata = <<>>
    /\ metadata_offset = NoneU64
    /\ header_locked = Empty
    /\ compressed_files = Empty
    /\ partial_results = Empty
    /\ partition_index = 0
    /\ operation_index = 0
    /\ copies = <<>>
    /\ tasks = Empty
    /\ mutex = None
    /\ directory = Empty
    /\ manifest = {}
    /\ external_images = {}
    /\ clear_vbmeta_flags = FALSE
    /\ input_files = Empty
    /\ vbmeta_headers = Empty
    /\ payload_headers = Empty
    /\ vbmeta_order = <<>>
    /\ order_idx = 0
    /\ written_files = {}
    /\ signed = {}
    /\ new_payload = Empty
    /\ output = "original"
    /\ steps = {"temp_output"}
    /\ err = NoError
    /\ verify_result = "none"
    /\ cancel_signal = FALSE
    /\ cancelled_at = None
    /\ footers = {}
    /\ modified_operations = Empty
    /\ copied_from = Empty

\* A check that misses no entry.
MissingEntries_None(names) == {}

\* missing: the required entries that are not in the archive.
MissingEntries(names) == {PATH_OTACERT, PATH_PAYLOAD, PATH_PROPERTIES} \ names

NoMetadata(names) == PATH_METADATA \notin names /\ PATH_METADATA_PB \notin names

ZipFail(e) ==
    /\ pc' = "failed"
    /\ err' = e
    /\ UNCHANGED <<paths, zip_idx, zip_writer, entries, metadata, properties,
                   last_entry_used_zip64, added_metadata, metadata_offset>>

\* The checks at the head of patch_ota_zip.
ZipCheckEntries ==
    /\ pc = "patch_ota_zip"
    /\ IF MissingEntries(DOMAIN paths) /= {}
       THEN ZipFail(Error("missing_entries", None))
       ELSE IF NoMetadata(DOMAIN paths)
       THEN ZipFail(Error("no_metadata", None))
       ELSE /\ pc' = "zip_entries"
            /\ zip_idx' = 1
            /\ UNCHANGED <<paths, zip_writer, entries, metadata, properties,
                           last_entry_used_zip64, added_metadata,
                           metadata_offset, err>>
    /\ UNCHANGED patch_vars

\* for path in &paths
PathsInOrder == SelectSeq(SortedPaths, LAMBDA p : p \in DOMAIN paths)

\* The strings patch_ota_payload can return as the payload's properties.
PropertiesStrings == {"FILE_HASH=a", "FILE_HASH=b"}

\* A loop that keeps the protobuf metadata entry with the copied entries.
IsMetadataEntry_LegacyOnly(path) == path = PATH_METADATA

\* The arms of the first match: the entries processed after the loop.
IsMetadataEntry(path) == path \in {PATH_METADATA, PATH_METADATA_PB}

\* The second match: where the data of an entry comes from, p being the
\* properties patch_ota_payload returned.  The properties entry is
\* properties.as_ref().unwrap().as_bytes().
EntryData(path, p) ==
    CASE path = PATH_OTACERT -> "cert_ota"
      [] path = PATH_PAYLOAD -> "patch_ota_payload"
      [] path = PATH_PROPERTIES -> p
      [] OTHER -> "stream::copy"

\* An entry of the output archive: the options it was started with and the
\* data written into it, None when the write did not complete.
Started(path, data) ==
    [name |-> path, large_file |-> use_zip64(paths[path]), data |-> data]

\* u64 addition of values far below 2^64.
Plus(a, b) == AddLimbs(a, b, 1).limbs

\* What the archive holds between the data of two entries: the data
\* descriptor of the first and the local header of the second.
LocalHeader == U64(0, 0, 0, 128)

\* zip_writer.end_extra_data(): where the data of the next entry starts.
NextDataStart ==
    IF entries = <<>> THEN LocalHeader
    ELSE LET last == entries[Len(entries)]
         IN  Plus(Plus(last.offset, last.size), LocalHeader)

\* The size of a certificate in PEM form, and of the properties string.
SmallSize == U64(0, 0, 0, 1024)

\* writer.stream_position(): the sizes an entry can have when it is written.
\* A copied entry keeps its size, the new payload has a size of its own.
WrittenSizes(path) ==
    IF path = PATH_PAYLOAD THEN Sizes
    ELSE IF path \in {PATH_OTACERT, PATH_PROPERTIES} THEN {SmallSize}
    ELSE {paths[path]}

ZipEntryRecord(path, offset, size) ==
    [name |-> path, offset |-> offset, size |-> size]

\* One iteration of the loop over the entries.  The outcome of the step
\* that writes the entry's data is an input: patch_ota_payload, a write or
\* stream::copy can fail, and the payload may not be stored uncompressed.
\* A properties entry met while properties is None is a panic (unwrap).
ZipEntry ==
    /\ pc = "zip_entries"
    /\ zip_idx <= Len(PathsInOrder)
    /\ LET path == PathsInOrder[zip_idx]
       IN  IF IsMetadataEntry(path)
           THEN /\ metadata' = path
                /\ zip_idx' = zip_idx + 1
                /\ UNCHANGED <<pc, err, paths, zip_writer, entries,
                               properties, last_entry_used_zip64>>
           ELSE IF path = PATH_PROPERTIES /\ properties = None
           THEN /\ pc' = "panic"
                /\ zip_writer' = Append(zip_writer, Started(path, None))
                /\ UNCHANGED <<err, paths, zip_idx, entries, metadata,
                               properties, last_entry_used_zip64>>
           ELSE \E written \in BOOLEAN, p \in PropertiesStrings,
                   size \in WrittenSizes(path) :
                   IF written
                   THEN /\ properties' =
                              IF path = PATH_PAYLOAD THEN p ELSE properties
                        /\ zip_writer' =
                              Append(zip_writer,
                                     Started(path,
                                             EntryData(path, properties)))
                        /\ entries' =
                              Append(entries,
                                     ZipEntryRecord(path, NextDataStart,
                                                    size))
                        /\ last_entry_used_zip64' = use_zip64(paths[path])
                        /\ zip_idx' = zip_idx + 1
                        /\ UNCHANGED <<pc, err, paths, metadata>>
                   ELSE /\ pc' = "failed"
                        /\ err' = Error("entry", path)
                        /\ zip_writer' =
                              Append(zip_writer, Started(path, None))
                        /\ UNCHANGED <<paths, zip_idx, entries, metadata,
                                       properties, last_entry_used_zip64>>
    /\ UNCHANGED <<added_metadata, metadata_offset, patch_vars>>

\* A descriptor size that ignores the flag.
DataDescriptorSize_Always16(zip64) == U64(0, 0, 0, 16)

\* let data_descriptor_size = if last_entry_used_zip64 { 24 } else { 16 };
DataDescriptorSize(zip64) ==
    IF zip64 THEN U64(0, 0, 0, 24) ELSE U64(0, 0, 0, 16)

\* entries.last().map(|e| e.offset + e.size).unwrap() + data_descriptor_size
NextEntryOffset ==
    LET e == entries[Len(entries)]
    IN  Plus(Plus(e.offset, e.size),
             DataDescriptorSize(last_entry_used_zip64))

\* The loop is over: ota::add_metadata regenerates both metadata entries,
\* appends them to the archive, and patch_ota_zip returns.  The arguments
\* are unwrapped before the call.
ZipAddMetadata ==
    /\ pc = "zip_entries"
    /\ zip_idx > Len(PathsInOrder)
    /\ IF entries = <<>> \/ metadata = None \/ properties = None
       THEN /\ pc' = "panic"
            /\ UNCHANGED <<err, paths, zip_idx, zip_writer, entries,
                           metadata, properties, last_entry_used_zip64,
                           added_metadata, metadata_offset>>
       ELSE \E written \in BOOLEAN :
               /\ metadata_offset' = SomeU64(NextEntryOffset)
               /\ IF written
                  THEN /\ pc' = "zip_finish"
                       /\ added_metadata' =
                             <<PATH_METADATA, PATH_METADATA_PB>>
                       /\ UNCHANGED err
                  ELSE /\ pc' = "failed"
                       /\ err' = Error("add_metadata", None)
                       /\ UNCHANGED added_metadata
               /\ UNCHANGED <<paths, zip_idx, zip_writer, entries,
                              metadata, properties, last_entry_used_zip64>>
    /\ UNCHANGED patch_vars

ZipNext ==
    \/ ZipCheckEntries
    \/ ZipEntry
    \/ ZipAddMetadata

SpecZip == ZipInit /\ [][ZipNext]_vars

(***************************************************************************)
(* The AVB phase on its own, from the state patch_ota_payload is in when   *)
(* get_vbmeta_patch_order has returned: boot and system patched, one       *)
(* vbmeta image that names both, and headers that carry property and       *)
(* kernel command line descriptors.                                        *)
(***************************************************************************)
\* Descriptors a patched image may carry beside its own.
ExtraDescriptors(name) ==
    { <<>>,
      <<Property("fingerprint", name)>>,
      <<Property(name, "new")>>,
      <<KernelCmdline(<<"r", "=", name>>)>> }

OwnDescriptor(name, digest) ==
    IF is_boot(name) THEN Hash(name, digest) ELSE HashTree(name, digest)

\* A descriptor for the image of the type its parent does not expect.
ForeignDescriptor(name, digest) ==
    IF is_boot(name) THEN HashTree(name, digest) ELSE Hash(name, digest)

\* Headers of the patched images: unsigned with the image's own descriptor
\* and more, with the digest the image had before, without a descriptor for
\* the image, with a descriptor of the other type, or signed with the AVB
\* key.
ChildHeaders(name) ==
    {Header(0, NoKey, <<OwnDescriptor(name, "d1")>> \o x) :
        x \in ExtraDescriptors(name)}
    \cup { Header(0, NoKey, <<OwnDescriptor(name, "d0")>>),
           Header(0, NoKey, <<>>),
           Header(0, NoKey, <<ForeignDescriptor(name, "d1")>>),
           Header(0, K_AVB, <<OwnDescriptor(name, "d1")>>) }

\* Headers of the vbmeta image: the boot image is named by a hash or by a
\* chain descriptor.
ParentHeaders ==
    {Header(f, K_OEM, <<b, HashTree("system", "d0")>> \o x) :
        f \in {0, 1},
        b \in {Hash("boot", "d0"), ChainPartition("boot", K_OEM)},
        x \in { <<>>, <<Property("fingerprint", "old")>>,
                <<KernelCmdline(<<"r", "=", "old">>)>> }}

UpdateInit ==
    /\ pc = "update_vbmeta_headers"
    /\ manifest = {"boot", "system", "vbmeta"}
    /\ external_images = {}
    /\ clear_vbmeta_flags \in BOOLEAN
    /\ \E hb \in ChildHeaders("boot"), hs \in ChildHeaders("system") :
          input_files \in
             { [n \in manifest |->
                   IF n = "boot" THEN InputFile(TempFile(n, 2), "Modified", hb)
                   ELSE IF n = "system"
                   THEN InputFile(TempFile(n, 1), "Modified", hs)
                   ELSE InputFile(TempFile(n, 1), "Extracted", hv)] :
               hv \in ParentHeaders }
    /\ vbmeta_headers = [n \in {"vbmeta"} |-> input_files[n].hdr]
    /\ payload_headers = vbmeta_headers
    /\ vbmeta_order \in
          {r.order : r \in {x \in get_vbmeta_patch_order(input_files,
                                                         vbmeta_headers) :
                               x.ok}}
    /\ order_idx = 1
    /\ written_files =
          {TempFile("boot", 1), TempFile("boot", 2), TempFile("system", 1),
           TempFile("vbmeta", 1), TempOutput}
    /\ signed = {}
    /\ new_payload = Empty
    /\ output = "original"
    /\ steps = {"temp_output"}
    /\ err = NoError
    /\ verify_result = "none"
    /\ cancel_signal = FALSE
    /\ cancelled_at = None
    /\ footers = {}
    /\ modified_operations = Empty
    /\ copied_from = Empty
    /\ paths = <<>>
    /\ zip_idx = 0
    /\ zip_writer = <<>>
    /\ entries = <<>>
    /\ metadata = None
    /\ properties = None
    /\ last_entry_used_zip64 = FALSE
    /\ added_metadata = <<>>
    /\ metadata_offset = NoneU64
    /\ header_locked = Empty
    /\ compressed_files = Empty
    /\ partial_results = Empty
    /\ partition_index = 0
    /\ operation_index = 0
    /\ copies = <<>>
    /\ tasks = Empty
    /\ mutex = None
    /\ directory = Empty

UpdateNext ==
    \/ UpdateVbmetaHeaders
    \/ RetainModified

SpecUpdate == UpdateInit /\ [][UpdateNext]_vars

(***************************************************************************)
(* get_vbmeta_patch_order on its own: the function is given a pool and     *)
(* the headers of the pool's vbmeta images.                                *)
(***************************************************************************)
\* The provenance of a pool entry.
InputFileState == {"External", "Extracted", "Modified"}

\* A boot or system entry of the pool in a given state, backed by the file
\* an entry in that state has.
OrderEntry(name, state) ==
    InputFile(IF state = "External" THEN ExternalFile(name)
              ELSE IF state = "Modified" THEN TempFile(name, 2)
              ELSE TempFile(name, 1),
              state, Header(0, NoKey, <<OwnDescriptor(name, "d1")>>))

\* The pools the function is given with the headers: vbmeta images as they
\* were extracted and loaded, the other images in any state.
OrderPools(names, headers) ==
    {[n \in names |->
         IF is_vbmeta(n) THEN InputFile(TempFile(n, 1), "Extracted", headers[n])
         ELSE OrderEntry(n, st[n])] : st \in [names -> InputFileState]}

OrderInit ==
    /\ pc = "get_vbmeta_patch_order"
    /\ manifest \in SUBSET {"boot", "system", "vbmeta", "vbmeta_system"}
    /\ clear_vbmeta_flags \in BOOLEAN
    /\ vbmeta_headers \in
          Choices([n \in iter_vbmeta(RequiredImages(manifest)) |->
                      VbmetaInputHeaders(n)])
    /\ input_files \in OrderPools(manifest, vbmeta_headers)
    /\ external_images =
          {n \in manifest : input_files[n].state = "External"}
    /\ payload_headers = vbmeta_headers
    /\ vbmeta_order = <<>>
    /\ order_idx = 0
    /\ written_files = {input_files[n].file : n \in DOMAIN input_files}
    /\ signed = {}
    /\ new_payload = Empty
    /\ output = "original"
    /\ steps = {"temp_output"}
    /\ err = NoError
    /\ verify_result = "none"
    /\ cancel_signal = FALSE
    /\ cancelled_at = None
    /\ footers = {}
    /\ modified_operations = Empty
    /\ copied_from = Empty
    /\ paths = <<>>
    /\ zip_idx = 0
    /\ zip_writer = <<>>
    /\ entries = <<>>
    /\ metadata = None
    /\ properties = None
    /\ last_entry_used_zip64 = FALSE
    /\ added_metadata = <<>>
    /\ metadata_offset = NoneU64
    /\ header_locked = Empty
    /\ compressed_files = Empty
    /\ partial_results = Empty
    /\ partition_index = 0
    /\ operation_index = 0
    /\ copies = <<>>
    /\ tasks = Empty
    /\ mutex = None
    /\ directory = Empty

OrderNext == GetVbmetaPatchOrder

SpecOrder == OrderInit /\ [][OrderNext]_vars

(***************************************************************************)
(* update_metadata_descriptors on its own: the function is given the       *)
(* parent's header, which it changes in place, and the header of a child;  *)
(* each iteration of its loop is a step.                                   *)
(***************************************************************************)
\* Largest number of descriptors of the parent.
MaxParentDescriptors == 3
\* Largest number of descriptors of the child.
MaxChildDescriptors == 2

\* Property and kernel command line descriptors of the parent, in header
\* order; the last command line has no '='.
ParentMetadata ==
    << Property("k1", "old"), KernelCmdline(<<"a", "=", "1">>),
       Property("k1", "old2"), KernelCmdline(<<"a", "=", "3">>),
       KernelCmdline(<<"q">>) >>

\* Descriptors of the child: properties the parent has or has not, command
\* lines with a prefix the parent has or has not, without '=', with nothing
\* before the '=', and the child's own hash descriptor.
ChildMetadata ==
    { Property("k1", "new"), Property("k1", "new2"), Property("k3", "new"),
      KernelCmdline(<<"a", "=", "2">>), KernelCmdline(<<"a", "=", "4">>),
      KernelCmdline(<<"c", "=", "2">>),
      KernelCmdline(<<"q">>), KernelCmdline(<<"=", "a">>),
      Hash("boot", "d1") }

\* The sequences over S of length at most max.
RECURSIVE SeqsUpTo(_, _)
SeqsUpTo(S, max) ==
    IF max = 0 THEN {<<>>}
    ELSE LET shorter == SeqsUpTo(S, max - 1)
         IN  shorter \cup {Append(q, x) : q \in shorter, x \in S}

MergeInit ==
    /\ pc = "update_metadata_descriptors"
    /\ manifest = {"boot", "vbmeta"}
    /\ external_images = {}
    /\ clear_vbmeta_flags = FALSE
    /\ \E key \in {NoKey, K_AVB} :
       \E ds \in SeqsUpTo(ChildMetadata, MaxChildDescriptors) :
          input_files =
             [n \in {"boot"} |->
                 InputFile(TempFile(n, 2), "Modified", Header(0, key, ds))]
    /\ \E ds \in SubSeqs(ParentMetadata, MaxParentDescriptors) :
          vbmeta_headers =
             [n \in {"vbmeta"} |->
                 Header(0, K_OEM, <<ChainPartition("boot", K_AVB)>> \o ds)]
    /\ payload_headers = vbmeta_headers
    /\ vbmeta_order = <<(<<"vbmeta", {"boot"}>>)>>
    /\ order_idx = 0
    /\ written_files = {TempFile("boot", 1), TempFile("boot", 2),
                        TempFile("vbmeta", 1), TempOutput}
    /\ signed = {}
    /\ new_payload = Empty
    /\ output = "original"
    /\ steps = {"temp_output"}
    /\ err = NoError
    /\ verify_result = "none"
    /\ cancel_signal = FALSE
    /\ cancelled_at = None
    /\ footers = {}
    /\ modified_operations = Empty
    /\ copied_from = Empty
    /\ paths = <<>>
    /\ zip_idx = 0
    /\ zip_writer = <<>>
    /\ entries = <<>>
    /\ metadata = None
    /\ properties = None
    /\ last_entry_used_zip64 = FALSE
    /\ added_metadata = <<>>
    /\ metadata_offset = NoneU64
    /\ header_locked = Empty
    /\ compressed_files = Empty
    /\ partial_results = Empty
    /\ partition_index = 0
    /\ operation_index = 0
    /\ copies = <<>>
    /\ tasks = Empty
    /\ mutex = None
    /\ directory = Empty

merge_unchanged ==
    <<manifest, external_images, clear_vbmeta_flags, input_files,
      payload_headers, vbmeta_order, written_files, signed, new_payload,
      output, steps, err, verify_result, cancel_signal, cancelled_at,
      footers, modified_operations, copied_from, zip_vars, payload_vars,
                   par_vars>>

\* if !child_header.public_key.is_empty() { return; }
MergeBegin ==
    /\ pc = "update_metadata_descriptors"
    /\ IF input_files["boot"].hdr.public_key /= NoKey
       THEN pc' = "returned" /\ order_idx' = order_idx
       ELSE pc' = "for_child_descriptor" /\ order_idx' = 1
    /\ UNCHANGED vbmeta_headers
    /\ UNCHANGED merge_unchanged

\* One iteration of the loop over the child's descriptors.
MergeStep ==
    /\ pc = "for_child_descriptor"
    /\ order_idx <= Len(input_files["boot"].hdr.descriptors)
    /\ vbmeta_headers' =
          [vbmeta_headers EXCEPT
              !["vbmeta"].descriptors =
                  MergeDescriptor(
                      @, input_files["boot"].hdr.descriptors[order_idx])]
    /\ order_idx' = order_idx + 1
    /\ UNCHANGED pc
    /\ UNCHANGED merge_unchanged

\* The loop is over.
MergeReturn ==
    /\ pc = "for_child_descriptor"
    /\ order_idx > Len(input_files["boot"].hdr.descriptors)
    /\ pc' = "returned"
    /\ UNCHANGED <<vbmeta_headers, order_idx>>
    /\ UNCHANGED merge_unchanged

MergeNext ==
    \/ MergeBegin
    \/ MergeStep
    \/ MergeReturn

SpecMerge == MergeInit /\ [][MergeNext]_vars

(***************************************************************************)
(* The compression of the pool and the PayloadWriter loop in detail, from  *)
(* the state patch_ota_payload is in after the prune that follows the AVB  *)
(* phase.  header_locked holds, for every partition of the manifest, its   *)
(* operations and where its new-partition info comes from (the ghost field *)
(* "by" of an operation names what produced it).  What the functions of    *)
(* the payload module return is an input of the step that calls them.      *)
(***************************************************************************)
\* Largest number of operations of a partition.
MaxOperations == 3

\* header.blob_offset of the original payload.
blob_offset == U64(0, 0, 0, 2048)

InstallOperation(data_offset, data_length, by) ==
    [data_offset |-> data_offset, data_length |-> data_length, by |-> by]

\* Operations of the original manifest: a ZERO or DISCARD operation, a
\* REPLACE operation with its data at an offset of the blob section, and an
\* operation with a data length and no data offset.
ZeroOperation == InstallOperation(NoneU64, NoneU64, "manifest")
ReplaceOperation(offset) ==
    InstallOperation(SomeU64(offset), SomeU64(U64(0, 0, 0, 512)), "manifest")
NoOffsetOperation ==
    InstallOperation(NoneU64, SomeU64(U64(0, 0, 0, 512)), "manifest")

\* The operations a partition has in the original manifest.
OriginalOperations(name) ==
    IF name = "system"
    THEN SeqsUpTo({ZeroOperation, ReplaceOperation(U64(0, 0, 0, 4096)),
                   ReplaceOperation(U64(65535, 65535, 65535, 65535))},
                  MaxOperations) \ {<<>>}
    ELSE IF name = "vendor"
    THEN {<<ReplaceOperation(U64(0, 0, 1, 0))>>, <<NoOffsetOperation>>}
    ELSE {<<ReplaceOperation(U64(0, 0, 0, 0))>>}

PartitionUpdate(operations, new_partition_info) ==
    [operations |-> operations, new_partition_info |-> new_partition_info]

\* What payload::compress_image returns: the operations of the whole image,
\* their data laid out one after the other in the file written.
FullOperations(count) ==
    [i \in 1..count |->
        InstallOperation(SomeU64(U64(0, 0, 0, (i - 1) * 512)),
                         SomeU64(U64(0, 0, 0, 512)), "compress_image")]

\* The number of elements of indices below i.
Rank(indices, i) == Cardinality({j \in indices : j < i})

\* What payload::compress_modified_image leaves of a partition when it
\* returns the indices of the operations it recompressed: these operations
\* have their data in the file written, the others are as they were.
PartialPartition(partition, indices) ==
    PartitionUpdate(
        [i \in 1..Len(partition.operations) |->
            IF (i - 1) \in indices
            THEN InstallOperation(
                     SomeU64(U64(0, 0, 0, Rank(indices, i - 1) * 512)),
                     SomeU64(U64(0, 0, 0, 512)), "compress_modified_image")
            ELSE partition.operations[i]],
        "compress_modified_image")

Outcome(kind, partition, indices) ==
    [kind |-> kind, partition |-> partition, indices |-> indices]

\* The results of payload::compress_modified_image(..).
PartialOutcomes(partition) ==
    {Outcome("ok", PartialPartition(partition, S), S) :
        S \in SUBSET (0..(Len(partition.operations) - 1))}
    \cup {Outcome("extents_not_in_order", partition, {}),
          Outcome("error", partition, {})}

\* The results of payload::compress_image(..).
FullOutcomes ==
    {Outcome("ok", PartitionUpdate(FullOperations(n), "compress_image"),
             0..(n - 1)) : n \in 1..MaxOperations}
    \cup {Outcome("error", PartitionUpdate(<<>>, "manifest"), {})}

\* The call that was not made.
NotCalled == Outcome("not_called", PartitionUpdate(<<>>, "manifest"), {})

\* A compress_image for which no error of the partial compression leads to
\* the compression of the whole image.
FallsBack_Never(partial) == FALSE

\* Err(payload::Error::ExtentsNotInOrder) => warn!(..), and on to the
\* compression of the whole image.
FallsBack(partial) == partial.kind = "extents_not_in_order"

CompressResult(ok, e, partition, indices) ==
    [ok |-> ok, err |-> e, partition |-> partition, indices |-> indices]

\* compress_image(name, file, header, ranges, cancel_signal), given what
\* the two functions of the payload module return when it calls them.
compress_image(name, partition, ranges, partial, full) ==
    IF ranges /\ partial.kind = "ok"
    THEN CompressResult(TRUE, NoError, partial.partition, partial.indices)
    ELSE IF ranges /\ ~FallsBack(partial)
    THEN CompressResult(FALSE, Error("compress_modified_image", name),
                        partition, {})
    ELSE IF full.kind = "ok"
    THEN CompressResult(TRUE, NoError, full.partition,
                        0..(Len(full.partition.operations) - 1))
    ELSE CompressResult(FALSE, Error("compress_image", name), partition, {})

\* The partitions in manifest order.
ManifestOrder == <<"boot", "system", "vendor">>

\* The pool after the prune: the patched boot and system images, and the
\* replacement of vendor if one was given.
PayloadPool(external) ==
    [n \in {"boot", "system"} \cup (external \cap {"vendor"}) |->
        IF n = "vendor"
        THEN InputFile(ExternalFile(n), "External", Unparsed)
        ELSE InputFile(TempFile(n, 2), "Modified", Unparsed)]

PayloadInit ==
    /\ pc = "compress_image"
    /\ manifest = {ManifestOrder[i] : i \in DOMAIN ManifestOrder}
    /\ external_images \in SUBSET {"system", "vendor"}
    /\ clear_vbmeta_flags = FALSE
    /\ input_files = PayloadPool(external_images)
    /\ \E boot \in OriginalOperations("boot") :
       \E system \in OriginalOperations("system") :
       \E vendor \in OriginalOperations("vendor") :
          header_locked =
             [n \in manifest |->
                 PartitionUpdate(IF n = "boot" THEN boot
                                 ELSE IF n = "system" THEN system
                                 ELSE vendor,
                                 "manifest")]
    /\ compressed_files = Empty
    /\ partial_results = Empty
    /\ partition_index = 0
    /\ operation_index = 0
    /\ copies = <<>>
    /\ tasks = Empty
    /\ mutex = None
    /\ directory = Empty
    /\ vbmeta_headers = Empty
    /\ payload_headers = Empty
    /\ vbmeta_order = <<>>
    /\ order_idx = 0
    /\ written_files =
          {input_files[n].file : n \in {"boot", "system"}} \cup {TempOutput}
    /\ signed = {}
    /\ new_payload = Empty
    /\ output = "original"
    /\ steps = {"temp_output"}
    /\ err = NoError
    /\ verify_result = "none"
    /\ cancel_signal = FALSE
    /\ cancelled_at = None
    /\ footers = {}
    /\ modified_operations = Empty
    /\ copied_from = Empty
    /\ paths = <<>>
    /\ zip_idx = 0
    /\ zip_writer = <<>>
    /\ entries = <<>>
    /\ metadata = None
    /\ properties = None
    /\ last_entry_used_zip64 = FALSE
    /\ added_metadata = <<>>
    /\ metadata_offset = NoneU64

payload_unchanged ==
    <<manifest, external_images, clear_vbmeta_flags, vbmeta_headers,
      payload_headers, vbmeta_order, order_idx, signed, new_payload, output,
      steps, verify_result, cancel_signal, cancelled_at, footers,
      modified_operations, copied_from, zip_vars, par_vars>>

\* compress_image of one entry of the pool, in the order the map yields
\* them; an error ends the run.
CompressImage ==
    /\ pc = "compress_image"
    /\ \E name \in DOMAIN input_files \ DOMAIN compressed_files :
       \E partial \in IF UsesRanges(name)
                      THEN PartialOutcomes(header_locked[name])
                      ELSE {NotCalled} :
       \E full \in IF partial.kind = "extents_not_in_order" \/ ~UsesRanges(name)
                   THEN FullOutcomes ELSE {NotCalled} :
          LET r == compress_image(name, header_locked[name], UsesRanges(name),
                                  partial, full)
          IN  /\ partial_results' =
                    IF UsesRanges(name)
                    THEN partial_results @@ (name :> partial.kind)
                    ELSE partial_results
              /\ IF r.ok
                 THEN /\ header_locked' =
                            [header_locked EXCEPT ![name] = r.partition]
                      /\ compressed_files' =
                            compressed_files @@ (name :> r.indices)
                      /\ input_files' =
                            [input_files EXCEPT
                                ![name].file = FreshTemp(name, input_files)]
                      /\ written_files' =
                            written_files \cup {FreshTemp(name, input_files)}
                      /\ UNCHANGED <<pc, err>>
                 ELSE /\ pc' = "failed"
                      /\ err' = r.err
                      /\ UNCHANGED <<header_locked, compressed_files,
                                     input_files, written_files>>
    /\ UNCHANGED <<partition_index, operation_index, copies>>
    /\ UNCHANGED payload_unchanged

\* Every entry is compressed: PayloadWriter::new.
PayloadWriterNew ==
    /\ pc = "compress_image"
    /\ DOMAIN compressed_files = DOMAIN input_files
    /\ pc' = "write_payload"
    /\ partition_index' = 0
    /\ operation_index' = 0
    /\ UNCHANGED <<err, input_files, written_files, header_locked,
                   compressed_files, partial_results, copies>>
    /\ UNCHANGED payload_unchanged

\* A loop that takes every operation of a partition of the pool from the
\* partition's file.
FromReplacement_WholePartition(name, oi) == name \in DOMAIN compressed_files

\* compressed_files.get_mut(&name) and
\* util::ranges_contains(modified_operations, &oi)
FromReplacement(name, oi) ==
    name \in DOMAIN compressed_files /\ oi \in compressed_files[name]

Copy(name, oi, from, offset, length) ==
    [name |-> name, oi |-> oi, from |-> from, offset |-> offset,
     length |-> length]

\* payload_writer.begin_next_operation(): the position after the current
\* operation is done.
NextOperation ==
    LET name == ManifestOrder[partition_index + 1]
    IN  IF operation_index + 1 < Len(header_locked[name].operations)
        THEN /\ operation_index' = operation_index + 1
             /\ partition_index' = partition_index
        ELSE /\ operation_index' = 0
             /\ partition_index' = partition_index + 1

PayloadFail(e) ==
    /\ pc' = "failed"
    /\ err' = e
    /\ UNCHANGED <<partition_index, operation_index, copies>>

\* One iteration of the PayloadWriter loop; stream::copy_n can fail.
BeginNextOperation ==
    /\ pc = "write_payload"
    /\ partition_index < Len(ManifestOrder)
    /\ LET name == ManifestOrder[partition_index + 1]
           oi == operation_index
           operation == header_locked[name].operations[oi + 1]
           data_offset == checked_add(operation.data_offset.value, blob_offset)
       IN  IF ~operation.data_length.some
           THEN NextOperation /\ UNCHANGED <<pc, err, copies>>
           ELSE IF ~operation.data_offset.some
           THEN PayloadFail(Error("missing_data_offset", name))
           ELSE \E copied \in BOOLEAN :
                   IF FromReplacement(name, oi)
                   THEN IF copied
                        THEN /\ copies' =
                                   Append(copies,
                                          Copy(name, oi, "replacement",
                                               operation.data_offset.value,
                                               operation.data_length.value))
                             /\ NextOperation
                             /\ UNCHANGED <<pc, err>>
                        ELSE PayloadFail(Error("copy_n", name))
                   ELSE IF ~data_offset.some
                   THEN PayloadFail(Error("data_offset_overflow", name))
                   ELSE IF copied
                   THEN /\ copies' =
                              Append(copies,
                                     Copy(name, oi, "original",
                                          data_offset.value,
                                          operation.data_length.value))
                        /\ NextOperation
                        /\ UNCHANGED <<pc, err>>
                   ELSE PayloadFail(Error("copy_n", name))
    /\ UNCHANGED <<input_files, written_files, header_locked,
                   compressed_files, partial_results>>
    /\ UNCHANGED payload_unchanged

\* payload_writer.finish()
PayloadWriterFinish ==
    /\ pc = "write_payload"
    /\ partition_index = Len(ManifestOrder)
    /\ \E finished \in BOOLEAN :
          IF finished
          THEN /\ pc' = "payload_written"
               /\ UNCHANGED <<err, partition_index, operation_index, copies>>
          ELSE PayloadFail(Error("finish", None))
    /\ UNCHANGED <<input_files, written_files, header_locked,
                   compressed_files, partial_results>>
    /\ UNCHANGED payload_unchanged

PayloadNext ==
    \/ CompressImage
    \/ PayloadWriterNew
    \/ BeginNextOperation
    \/ PayloadWriterFinish

SpecPayload == PayloadInit /\ [][PayloadNext]_vars

(***************************************************************************)
(* verify_partition_hashes on its own: one task per image, run by a        *)
(* parallel iterator and collected into one Result.  The tasks interleave  *)
(* freely; once a task has failed the iterator may leave out tasks that    *)
(* have not started.                                                       *)
(***************************************************************************)
\* The names the set images is drawn from.
HashImages == {"boot", "system", "vendor"}

\* What a task can end with.
TaskErrors == {"not_found", "no_hash", "io", "cancel", "mismatch"}

\* images, the partitions of header.manifest with the digest they declare
\* (None: no new_partition_info or no hash in it), and the SHA-256 of each
\* image file of the directory.
HashInit ==
    /\ pc = "verify_partition_hashes"
    /\ \E images \in SUBSET HashImages :
          /\ tasks = [n \in images |-> "pending"]
          /\ directory \in [images -> {"d0", "d1"}]
          /\ \E present \in SUBSET images :
                header_locked \in
                   [present -> {PartitionUpdate(<<>>, None),
                                PartitionUpdate(<<>>, "d0")}]
    /\ mutex = None
    /\ cancel_signal = FALSE
    /\ cancelled_at = None
    /\ err = NoError
    /\ manifest = {}
    /\ external_images = {}
    /\ clear_vbmeta_flags = FALSE
    /\ input_files = Empty
    /\ vbmeta_headers = Empty
    /\ payload_headers = Empty
    /\ vbmeta_order = <<>>
    /\ order_idx = 0
    /\ written_files = {}
    /\ signed = {}
    /\ new_payload = Empty
    /\ output = "original"
    /\ steps = {}
    /\ verify_result = "none"
    /\ footers = {}
    /\ modified_operations = Empty
    /\ copied_from = Empty
    /\ paths = <<>>
    /\ zip_idx = 0
    /\ zip_writer = <<>>
    /\ entries = <<>>
    /\ metadata = None
    /\ properties = None
    /\ last_entry_used_zip64 = FALSE
    /\ added_metadata = <<>>
    /\ metadata_offset = NoneU64
    /\ compressed_files = Empty
    /\ partial_results = Empty
    /\ partition_index = 0
    /\ operation_index = 0
    /\ copies = <<>>

hash_unchanged ==
    <<manifest, external_images, clear_vbmeta_flags, input_files,
      vbmeta_headers, payload_headers, vbmeta_order, order_idx,
      written_files, signed, new_payload, output, steps, verify_result,
      footers, modified_operations, copied_from, zip_vars, payload_vars,
      mutex, directory>>

\* The first half of a task: the partition and its digest are looked up in
\* the manifest and the image file is opened.
HashLookup(name) ==
    /\ pc = "verify_partition_hashes"
    /\ tasks[name] = "pending"
    /\ \E opened \in BOOLEAN :
          tasks' =
             [tasks EXCEPT ![name] =
                 IF name \notin DOMAIN header_locked THEN "not_found"
                 ELSE IF header_locked[name].new_partition_info = None
                 THEN "no_hash"
                 ELSE IF opened THEN "hashing" ELSE "io"]
    /\ UNCHANGED <<pc, err, cancel_signal, cancelled_at>>
    /\ UNCHANGED hash_unchanged

\* The second half: stream::copy into the HashingWriter, which polls the
\* cancel flag, and the comparison of the digests.
HashCopy(name) ==
    /\ pc = "verify_partition_hashes"
    /\ tasks[name] = "hashing"
    /\ \E read \in BOOLEAN :
          tasks' =
             [tasks EXCEPT ![name] =
                 IF cancel_signal THEN "cancel"
                 ELSE IF ~read THEN "io"
                 ELSE IF directory[name]
                            = header_locked[name].new_partition_info
                 THEN "ok" ELSE "mismatch"]
    /\ UNCHANGED <<pc, err, cancel_signal, cancelled_at>>
    /\ UNCHANGED hash_unchanged

\* A task that has not started is left out once another one has failed.
HashSkip(name) ==
    /\ pc = "verify_partition_hashes"
    /\ tasks[name] = "pending"
    /\ \E other \in DOMAIN tasks : tasks[other] \in TaskErrors
    /\ tasks' = [tasks EXCEPT ![name] = "skipped"]
    /\ UNCHANGED <<pc, err, cancel_signal, cancelled_at>>
    /\ UNCHANGED hash_unchanged

\* The flag is set from outside while the tasks run.
HashSetCancel ==
    /\ pc = "verify_partition_hashes"
    /\ ~cancel_signal
    /\ cancel_signal' = TRUE
    /\ cancelled_at' = pc
    /\ UNCHANGED <<pc, err, tasks>>
    /\ UNCHANGED hash_unchanged

\* A collect that succeeds as soon as one task has.
Collected_AnyOk(results) == \E n \in DOMAIN results : results[n] = "ok"

\* collect::<Result<()>>(): Ok when every task returned Ok.
Collected(results) == \A n \in DOMAIN results : results[n] = "ok"

\* Every task has returned or was left out: the call returns, with the
\* error of one of the tasks that failed if there is one.
HashCollect ==
    /\ pc = "verify_partition_hashes"
    /\ \A n \in DOMAIN tasks : tasks[n] \notin {"pending", "hashing"}
    /\ IF Collected(tasks)
       THEN pc' = "returned" /\ err' = NoError
       ELSE /\ pc' = "failed"
            /\ \E n \in DOMAIN tasks :
                  tasks[n] \in TaskErrors /\ err' = Error(tasks[n], n)
    /\ UNCHANGED <<tasks, cancel_signal, cancelled_at>>
    /\ UNCHANGED hash_unchanged

HashNext ==
    \/ \E name \in DOMAIN tasks : HashLookup(name)
    \/ \E name \in DOMAIN tasks : HashCopy(name)
    \/ \E name \in DOMAIN tasks : HashSkip(name)
    \/ HashSetCancel
    \/ HashCollect

SpecHashes == HashInit /\ [][HashNext]_vars

(***************************************************************************)
(* patch_boot_images on its own, from the pool open_input_files returned:  *)
(* boot::patch_boot_images runs one task per boot image in parallel; a     *)
(* task calls the first closure to read its image, patches it, and, if the *)
(* image is one it rewrites, calls the second closure and writes to the    *)
(* handle it got.  Each closure locks the pool's mutex for its own body.   *)
(***************************************************************************)
BootTask(target, hdr) == [pc |-> "start", target |-> target, hdr |-> hdr]

BootInit ==
    /\ pc = "patch_boot_images"
    /\ manifest = {"boot", "init_boot", "system", "vbmeta"}
    /\ external_images \in SUBSET {"boot", "system"}
    /\ clear_vbmeta_flags = FALSE
    /\ \E boot \in OpenedHeaders("boot"), system \in OpenedHeaders("system") :
          input_files =
             [n \in AllImages |->
                 OpenedFile(n, IF n = "boot" THEN boot
                               ELSE IF n = "system" THEN system
                               ELSE Unparsed)]
    /\ \E targets \in BootTargets(RequiredImages(manifest)) :
       \E boot \in PatchedHeaders("boot") :
       \E init_boot \in PatchedHeaders("init_boot") :
          tasks =
             [n \in iter_boot(RequiredImages(manifest)) |->
                 BootTask(n \in targets,
                          IF n = "boot" THEN boot ELSE init_boot)]
    /\ mutex = None
    /\ directory = Empty
    /\ written_files =
          {TempFile(n, 1) : n \in AllImages \ external_images}
          \cup {TempOutput}
    /\ steps = {"temp_output"}
    /\ err = NoError
    /\ cancel_signal = FALSE
    /\ cancelled_at = None
    /\ vbmeta_headers = Empty
    /\ payload_headers = Empty
    /\ vbmeta_order = <<>>
    /\ order_idx = 0
    /\ signed = {}
    /\ new_payload = Empty
    /\ output = "original"
    /\ verify_result = "none"
    /\ footers = {}
    /\ modified_operations = Empty
    /\ copied_from = Empty
    /\ paths = <<>>
    /\ zip_idx = 0
    /\ zip_writer = <<>>
    /\ entries = <<>>
    /\ metadata = None
    /\ properties = None
    /\ last_entry_used_zip64 = FALSE
    /\ added_metadata = <<>>
    /\ metadata_offset = NoneU64
    /\ header_locked = Empty
    /\ compressed_files = Empty
    /\ partial_results = Empty
    /\ partition_index = 0
    /\ operation_index = 0
    /\ copies = <<>>

boot_unchanged ==
    <<manifest, external_images, clear_vbmeta_flags, vbmeta_headers,
      payload_headers, vbmeta_order, order_idx, signed, new_payload, output,
      steps, verify_result, cancel_signal, cancelled_at, footers,
      modified_operations, copied_from, zip_vars, payload_vars, directory>>

\* The task of name moves to position to.
Moved(name, to) == [tasks EXCEPT ![name].pc = to]

\* input_files.lock().unwrap() in the first closure.
OpenInputLock(name) ==
    /\ pc = "patch_boot_images"
    /\ tasks[name].pc = "start"
    /\ mutex = None
    /\ mutex' = name
    /\ tasks' = Moved(name, "open_input")
    /\ UNCHANGED <<pc, err, input_files, written_files>>
    /\ UNCHANGED boot_unchanged

\* ReadSeekReopen::reopen_boxed(&locked[name].file); the guard is dropped
\* when the closure returns.
OpenInput(name) ==
    /\ pc = "patch_boot_images"
    /\ tasks[name].pc = "open_input"
    /\ \E reopened \in BOOLEAN :
          tasks' = Moved(name, IF reopened THEN "patching" ELSE "failed")
    /\ mutex' = None
    /\ UNCHANGED <<pc, err, input_files, written_files>>
    /\ UNCHANGED boot_unchanged

\* The image is read and patched, on the task's own handle.
PatchImage(name) ==
    /\ pc = "patch_boot_images"
    /\ tasks[name].pc = "patching"
    /\ \E patched \in BOOLEAN :
          tasks' =
             Moved(name, IF ~patched THEN "failed"
                         ELSE IF tasks[name].target THEN "patched"
                         ELSE "done")
    /\ UNCHANGED <<pc, err, input_files, written_files, mutex>>
    /\ UNCHANGED boot_unchanged

\* input_files.lock().unwrap() in the second closure.
OpenOutputLock(name) ==
    /\ pc = "patch_boot_images"
    /\ tasks[name].pc = "patched"
    /\ mutex = None
    /\ mutex' = name
    /\ tasks' = Moved(name, "open_output")
    /\ UNCHANGED <<pc, err, input_files, written_files>>
    /\ UNCHANGED boot_unchanged

\* A closure that swaps the entry of every boot image.
SwapEntry_EveryBoot(pool, name, file, hdr) ==
    [n \in DOMAIN pool |->
        IF is_boot(n) THEN InputFile(FreshTemp(n, pool), "Modified", hdr)
        ELSE pool[n]]

\* input_file.file = tempfile()?; input_file.state = Modified;
SwapEntry(pool, name, file, hdr) ==
    [pool EXCEPT ![name] = InputFile(file, "Modified", hdr)]

\* The body of the second closure: the entry gets a new temp file and is
\* marked Modified, and a handle on that file is returned.  When the temp
\* file cannot be created the entry is left as it was; when the new file
\* cannot be reopened the entry has been swapped already.
OpenOutput(name) ==
    /\ pc = "patch_boot_images"
    /\ tasks[name].pc = "open_output"
    /\ \E outcome \in {"tempfile_failed", "reopen_failed", "ok"} :
          IF outcome = "tempfile_failed"
          THEN /\ tasks' = Moved(name, "failed")
               /\ UNCHANGED input_files
          ELSE /\ input_files' =
                     SwapEntry(input_files, name,
                               BootWriteFile(name, input_files),
                               tasks[name].hdr)
               /\ tasks' =
                     Moved(name, IF outcome = "ok" THEN "writing"
                                 ELSE "failed")
    /\ mutex' = None
    /\ UNCHANGED <<pc, err, written_files>>
    /\ UNCHANGED boot_unchanged

\* The patched image is written to the handle.
WriteImage(name) ==
    /\ pc = "patch_boot_images"
    /\ tasks[name].pc = "writing"
    /\ \E written \in BOOLEAN :
          tasks' = Moved(name, IF written THEN "done" ELSE "failed")
    /\ written_files' = written_files \cup {input_files[name].file}
    /\ UNCHANGED <<pc, err, input_files, mutex>>
    /\ UNCHANGED boot_unchanged

\* A task that has not started is left out once another one has failed.
BootSkip(name) ==
    /\ pc = "patch_boot_images"
    /\ tasks[name].pc = "start"
    /\ \E other \in DOMAIN tasks : tasks[other].pc = "failed"
    /\ tasks' = Moved(name, "skipped")
    /\ UNCHANGED <<pc, err, input_files, written_files, mutex>>
    /\ UNCHANGED boot_unchanged

\* Every task is over: boot::patch_boot_images returns, and so does
\* patch_boot_images, with `?` on an error.
BootReturn ==
    /\ pc = "patch_boot_images"
    /\ \A n \in DOMAIN tasks : tasks[n].pc \in {"done", "failed", "skipped"}
    /\ IF \A n \in DOMAIN tasks : tasks[n].pc = "done"
       THEN /\ pc' = "retain_boot"
            /\ UNCHANGED <<err, input_files>>
       ELSE /\ pc' = "failed"
            /\ \E n \in DOMAIN tasks :
                  tasks[n].pc = "failed" /\ err' = Error("boot", n)
            /\ input_files' = Empty
    /\ UNCHANGED <<tasks, mutex, written_files>>
    /\ UNCHANGED boot_unchanged

BootNext ==
    \/ \E name \in DOMAIN tasks : OpenInputLock(name)
    \/ \E name \in DOMAIN tasks : OpenInput(name)
    \/ \E name \in DOMAIN tasks : PatchImage(name)
    \/ \E name \in DOMAIN tasks : OpenOutputLock(name)
    \/ \E name \in DOMAIN tasks : OpenOutput(name)
    \/ \E name \in DOMAIN tasks : WriteImage(name)
    \/ \E name \in DOMAIN tasks : BootSkip(name)
    \/ BootReturn

SpecBoot == BootInit /\ [][BootNext]_vars

(***************************************************************************)
(* Properties.                                                             *)
(***************************************************************************)
\* C1: whenever patch_subcommand has succeeded, verify_subcommand run on the
\* archive at the output path, with the same OTA certificate and the public
\* part of key_avb, succeeds.
C1_PatchedOutputVerifies == pc = "verified" => verify_result = "ok"

\* C2: no step writes to a file that backs an External pool entry: every
\* file written is a temp file, the system patcher is handed an Extracted
\* entry only (an External one was copied to a fresh temp file first), and
\* every boot or vbmeta entry that was rewritten is backed by a temp file
\* other than the one its image was extracted to.
C2_ExternalFilesNeverWritten ==
    /\ \A f \in written_files : f.kind = "temp"
    /\ \A n \in DOMAIN input_files :
          input_files[n].state = "Modified" =>
              /\ input_files[n].file.kind = "temp"
              /\ (is_boot(n) \/ is_vbmeta(n)) /\ n \notin external_images =>
                    input_files[n].file /= TempFile(n, 1)
    /\ pc = "system_patcher" =>
          \A t \in iter_system(RequiredImages(manifest)) :
             input_files[t].state = "Extracted"

\* A replacement system image was copied, and the copy patched.
C2_ExternalSystemPatched ==
    /\ pc = "load_vbmeta_images"
    /\ "system" \in external_images
    /\ input_files["system"].state = "Modified"
    /\ ExternalFile("system") \notin written_files

\* C3: the file at the output path changes only by the final rename, taken
\* after the zip was finalized, the archive signed and the metadata offsets
\* verified; a run that failed has left it as it was.
C3_OutputOnlyByFinalRename ==
    /\ [](pc = "failed" => output = "original")
    /\ [][output' /= output =>
            /\ pc = "persist"
            /\ {"zip_finish", "sign", "verify_metadata"} \subseteq steps
            /\ pc' = "done"]_vars

\* A run that failed after every step but the rename.
C3_FailedBeforeRename ==
    /\ pc = "failed"
    /\ "verify_metadata" \in steps
    /\ output = "original"

\* The AVB phase has returned: every element of the order was processed.
AvbPhaseDone ==
    pc = "update_vbmeta_headers" /\ order_idx > Len(vbmeta_order)

\* C4: for every vbmeta image of the payload whose header has non-zero
\* flags, the AVB phase succeeds only when clear_vbmeta_flags is set, and
\* then the image's header has flags = 0 and was re-signed; the error raised
\* for the flags names an image with non-zero flags.
C4_FlagsRejectedOrCleared ==
    /\ AvbPhaseDone =>
          \A v \in DOMAIN payload_headers :
              payload_headers[v].flags /= 0 =>
                  /\ clear_vbmeta_flags
                  /\ vbmeta_headers[v].flags = 0
                  /\ vbmeta_headers[v].public_key = K_AVB
                  /\ v \in signed
    /\ err.kind = "flags" =>
          /\ ~clear_vbmeta_flags
          /\ payload_headers[err.name].flags /= 0

\* C4's case: a vbmeta image with non-zero flags was cleared and re-signed.
C4_FlagsCleared ==
    /\ AvbPhaseDone
    /\ \E v \in DOMAIN payload_headers :
          /\ payload_headers[v].flags /= 0
          /\ vbmeta_headers[v].flags = 0
          /\ vbmeta_headers[v].public_key = K_AVB

\* The partitions a header's descriptors refer to, read off the header.
NamedBy(header) ==
    {header.descriptors[i].name : i \in
        {j \in 1..Len(header.descriptors) :
            header.descriptors[j].type \in
                {"Hash", "HashTree", "ChainPartition"}}}

\* The boot-like and vbmeta-like partitions of the manifest that are neither
\* a loaded vbmeta image nor referred to by a loaded vbmeta header.
Unprotected ==
    {n \in manifest :
        /\ is_boot(n) \/ is_vbmeta(n)
        /\ n \notin DOMAIN payload_headers
        /\ \A v \in DOMAIN payload_headers : n \notin NamedBy(payload_headers[v])}

\* C5: the protection check fails exactly when some boot-like or
\* vbmeta-like partition of the manifest is neither a loaded vbmeta image nor
\* named by a descriptor of a loaded vbmeta header, and it runs before any
\* vbmeta header is modified or signed.
C5_ProtectionCheck ==
    /\ err.kind = "unprotected" => (Unprotected /= {} /\ signed = {})
    /\ pc \in {"get_vbmeta_patch_order", "update_vbmeta_headers"} =>
          Unprotected = {}
    /\ pc = "ensure_partitions_protected" =>
          (signed = {} /\ vbmeta_headers = payload_headers)

\* The check failed on a payload that has vbmeta images.
C5_BootUnprotected ==
    /\ pc = "failed"
    /\ err.kind = "unprotected"
    /\ DOMAIN payload_headers /= {}
    /\ "boot" \in Unprotected

\* The vbmeta images no loaded vbmeta header refers to.
RootNodes ==
    {v \in DOMAIN payload_headers :
        \A u \in DOMAIN payload_headers : v \notin NamedBy(payload_headers[u])}

\* C6: get_vbmeta_patch_order succeeds only when the dependency graph has
\* exactly one root; with zero roots or more than one the run ends with an
\* error.
C6_ExactlyOneRoot ==
    /\ pc = "update_vbmeta_headers" => Cardinality(RootNodes) = 1
    /\ err.kind = "multiple_roots" => Cardinality(RootNodes) > 1

\* Two vbmeta images, neither referring to the other: the run failed.
C6_TwoRootsRejected ==
    /\ pc = "failed"
    /\ err.kind = "multiple_roots"
    /\ RootNodes = {"vbmeta", "vbmeta_system"}

\* The nodes reachable from the set S along the edges of g.
RECURSIVE Reach(_, _)
Reach(g, S) ==
    LET T == S \cup UNION {g[n] : n \in S \cap DOMAIN g}
    IN  IF T = S THEN S ELSE Reach(g, T)

Descendants(g, v) == Reach(g, g[v])

\* The edges between vbmeta images, read off the loaded headers.
VbmetaEdges ==
    [v \in DOMAIN payload_headers |->
        NamedBy(payload_headers[v]) \cap DOMAIN payload_headers]

Cyclic == \E v \in DOMAIN VbmetaEdges : v \in Descendants(VbmetaEdges, v)

\* C7: whenever the dependency graph has a directed cycle, a self-loop or a
\* cycle the single root is not on included, the run ends with an error and
\* no vbmeta header is re-signed.
C7_CycleRejected ==
    /\ pc = "update_vbmeta_headers" => ~Cyclic
    /\ (pc = "failed" /\ Cyclic) => signed = {}

\* A self-loop beside the single root: the run failed in the sort.
C7_CycleOffRoot ==
    /\ pc = "failed"
    /\ err.kind = "cycle"
    /\ Cyclic
    /\ RootNodes = {"vbmeta"}

\* The vbmeta images with a Modified descendant in the dependency graph.
HasModifiedDescendant(v) ==
    \E d \in Descendants(DepGraph(input_files, vbmeta_headers), v) :
        input_files[d].state = "Modified"

Unsigned(header) == [header EXCEPT !.public_key = NoKey]

IndexOf(name) ==
    IF \E i \in 1..Len(vbmeta_order) : vbmeta_order[i][1] = name
    THEN CHOOSE i \in 1..Len(vbmeta_order) : vbmeta_order[i][1] = name
    ELSE 0

\* C10: in the order get_vbmeta_patch_order returns, every vbmeta child
\* comes before each of its parents, and update_vbmeta_headers goes through
\* the order from its first element: when a parent is processed, every
\* vbmeta child of it has been processed.
C10_ChildrenBeforeParents ==
    pc = "update_vbmeta_headers" =>
        /\ \A i \in 1..Len(vbmeta_order) :
              \A c \in vbmeta_order[i][2] \cap DOMAIN vbmeta_headers :
                 IndexOf(c) \in 1..(i - 1)
        /\ order_idx \in 1..(Len(vbmeta_order) + 1)
        /\ \A v \in signed : IndexOf(v) \in 1..(order_idx - 1)

\* The child was processed and signed; its parent is next.
C10_ChildDoneParentNext ==
    /\ pc = "update_vbmeta_headers"
    /\ Len(vbmeta_order) = 2
    /\ order_idx = 2
    /\ vbmeta_order[1][1] \in vbmeta_order[2][2]
    /\ vbmeta_order[1][1] \in signed


(***************************************************************************)
(* C11.  As stated: in every step, a pool entry that becomes Modified was   *)
(* Extracted immediately before, so that no entry goes from External to     *)
(* Modified directly.                                                       *)
(***************************************************************************)
C11_ModifiedOnlyFromExtracted ==
    [][\A n \in DOMAIN input_files \cap DOMAIN input_files' :
          (input_files'[n].state = "Modified"
           /\ input_files[n].state /= "Modified")
          => input_files[n].state = "Extracted"]_vars

\* C11, amended: an entry goes from External to Modified directly only for a
\* boot-like or vbmeta image, and only in a step that replaces the entry's
\* file by a temp file no step has written before; the system image never
\* does (it is copied and becomes Extracted first).
C11_ExternalModifiedOnlyByReplacement ==
    [][\A n \in DOMAIN input_files \cap DOMAIN input_files' :
          (input_files[n].state = "External"
           /\ input_files'[n].state = "Modified")
          => /\ ~is_system(n)
             /\ input_files'[n].file.kind = "temp"
             /\ input_files'[n].file /= input_files[n].file
             /\ input_files'[n].file \notin written_files]_vars

\* A replacement boot image has just been patched.
C11_ExternalBootModified ==
    /\ pc = "retain_boot"
    /\ "boot" \in external_images
    /\ input_files["boot"].state = "Modified"


(***************************************************************************)
(* C12.  From the prune after the boot phase on, the pool holds no boot-   *)
(* like entry that is Extracted; from the prune after the AVB phase on, it *)
(* holds no Extracted entry at all.                                        *)
(***************************************************************************)
BeforeBootPrune ==
    {"patch_subcommand", "patch_ota_zip", "patch_ota_payload",
     "open_input_files", "patch_boot_images", "retain_boot"}

BeforeAvbPrune ==
    BeforeBootPrune
    \cup {"patch_system_image", "system_patcher", "load_vbmeta_images",
          "ensure_partitions_protected", "get_vbmeta_patch_order",
          "update_vbmeta_headers"}

C12_PrunedStaysPruned ==
    /\ pc \notin BeforeBootPrune =>
          \A n \in DOMAIN input_files :
             ~(is_boot(n) /\ input_files[n].state = "Extracted")
    /\ pc \notin BeforeAvbPrune =>
          \A n \in DOMAIN input_files : input_files[n].state /= "Extracted"

\* The prune after the boot phase has removed the unpatched init_boot and
\* kept an Extracted image that is not boot-like.
C12_UnpatchedBootPruned ==
    /\ pc = "patch_system_image"
    /\ "init_boot" \in manifest \ external_images
    /\ "init_boot" \notin DOMAIN input_files
    /\ \E n \in DOMAIN input_files : input_files[n].state = "Extracted"


(***************************************************************************)
(* C13.  A run given a replacement for a name that is not a partition of   *)
(* the manifest never gets past the check in patch_ota_payload: it fails,  *)
(* and no image has been opened or extracted into the pool.                *)
(***************************************************************************)
C13_NonExistentReplacementFails ==
    ~(external_images \subseteq manifest) =>
       /\ pc \in {"patch_subcommand", "patch_ota_zip", "patch_ota_payload",
                  "failed"}
       /\ input_files = Empty
       /\ written_files \subseteq {TempOutput}
       /\ output = "original"

\* The check of the replacement names has rejected the run.
C13_NonExistentRejected ==
    /\ pc = "failed"
    /\ err.kind = "non_existent"
    /\ err.name \in external_images \ manifest


AlwaysPolled ==
    {"patch_boot_images", "system_patcher", "compress_image", "write_payload"}

\* Positions after patch_ota_payload has returned successfully.
AfterPayload ==
    {"add_metadata", "zip_finish", "sign", "verify_metadata", "persist",
     "done", "verified"}

C15_FooterRejectedBeforeUpdate ==
    footers /= {} =>
       /\ pc = "failed"
       /\ err.kind = "footer"
       /\ err.name \in footers
       /\ signed = {}
       /\ vbmeta_headers = Empty
       /\ vbmeta_order = <<>>
       /\ \A f \in written_files :
             is_vbmeta(f.name) =>
                (f = TempFile(f.name, 1) /\ f.name \notin external_images)

\* A vbmeta image with a footer was found after the boot and system images
\* had been patched.
C15_FooterFound ==
    /\ pc = "failed"
    /\ err.kind = "footer"
    /\ "vbmeta" \in footers
    /\ \E f \in written_files : is_system(f.name)


(***************************************************************************)
(* C16.  patch_ota_zip fails when the input archive lacks the OTA          *)
(* certificate, the payload or the payload properties, or has neither      *)
(* metadata entry, and it does so before any entry is started in the       *)
(* output archive.                                                         *)
(***************************************************************************)
C16_MissingEntriesFailFirst ==
    (\/ PATH_OTACERT \notin DOMAIN paths
     \/ PATH_PAYLOAD \notin DOMAIN paths
     \/ PATH_PROPERTIES \notin DOMAIN paths
     \/ (PATH_METADATA \notin DOMAIN paths
         /\ PATH_METADATA_PB \notin DOMAIN paths))
    => /\ pc \in {"patch_ota_zip", "failed"}
       /\ pc = "failed" => err.kind \in {"missing_entries", "no_metadata"}
       /\ zip_writer = <<>>
       /\ entries = <<>>

\* An archive with the certificate and a metadata entry but no payload was
\* rejected.
C16_PayloadMissing ==
    /\ pc = "failed"
    /\ err.kind = "missing_entries"
    /\ PATH_PAYLOAD \notin DOMAIN paths
    /\ {PATH_OTACERT, PATH_METADATA_PB} \subseteq DOMAIN paths

(***************************************************************************)
(* C17.  An entry is started in the output archive with zip64 extensions  *)
(* exactly when the declared size of the input entry is at least 2^32 - 1: *)
(* 2^32 - 1 turns zip64 on, 2^32 - 2 does not.                             *)
(***************************************************************************)
\* size <= 2^32 - 2
BelowThreshold(size) ==
    /\ size[1] = 0
    /\ size[2] = 0
    /\ (size[3] < 65535 \/ size[4] < 65535)

C17_Zip64AtThreshold ==
    \A i \in DOMAIN zip_writer :
       LET size == paths[zip_writer[i].name]
       IN  /\ zip_writer[i].large_file <=> ~BelowThreshold(size)
           /\ size = U64(0, 0, 65535, 65535) => zip_writer[i].large_file
           /\ size = U64(0, 0, 65535, 65534) => ~zip_writer[i].large_file

\* Two entries on either side of the threshold have been started.
C17_BothSidesOfThreshold ==
    \E i, j \in DOMAIN zip_writer :
       /\ paths[zip_writer[i].name] = U64(0, 0, 65535, 65535)
       /\ zip_writer[i].large_file
       /\ paths[zip_writer[j].name] = U64(0, 0, 65535, 65534)
       /\ ~zip_writer[j].large_file


(***************************************************************************)
(* C18.  Every partition given as a replacement is in the pool when the    *)
(* compression starts, is recompressed as a whole, and all the data of its *)
(* operations in the new payload is copied from the recompressed           *)
(* replacement, none from the original payload.                            *)
(***************************************************************************)
C18_ReplacementFullyRecompressed ==
    /\ pc = "compress_image" => external_images \subseteq DOMAIN input_files
    /\ pc = "write_payload" =>
          \A n \in external_images :
             n \in DOMAIN modified_operations /\ modified_operations[n] = "all"
    /\ pc \in AfterPayload =>
          \A n \in external_images : copied_from[n] = {"replacement"}

\* The payload has been written in a run that replaced the system image.
C18_ReplacedSystemWritten ==
    /\ pc = "add_metadata"
    /\ "system" \in external_images
    /\ copied_from["system"] = {"replacement"}


(***************************************************************************)
(* C19.  The descriptor list update_vbmeta_headers gives a vbmeta node     *)
(* (contents and order) is the same for every order in which the node's    *)
(* dependencies are visited: two runs on equal inputs that iterate deps    *)
(* differently write the same descriptors.                                 *)
(***************************************************************************)
C19_DescriptorsIndependentOfVisitOrder ==
    (pc = "update_vbmeta_headers" /\ order_idx <= Len(vbmeta_order)) =>
       LET name == vbmeta_order[order_idx][1]
           deps == vbmeta_order[order_idx][2]
           Run(deps_seq) == UpdatedHeader(input_files, vbmeta_headers, name,
                                          deps_seq, clear_vbmeta_flags)
       IN  \A s1, s2 \in Perms(deps) :
              (Run(s1).ok /\ Run(s2).ok) =>
                 Run(s1).header.descriptors = Run(s2).header.descriptors


FirstNaming(header, name) ==
    {header.descriptors[i] : i \in
        {j \in 1..Len(header.descriptors) :
            /\ header.descriptors[j].type \in
                  {"Hash", "HashTree", "ChainPartition"}
            /\ header.descriptors[j].name = name
            /\ \A k \in 1..(j - 1) :
                  ~ /\ header.descriptors[k].type \in
                         {"Hash", "HashTree", "ChainPartition"}
                    /\ header.descriptors[k].name = name}}

C22_ParentDescriptorsMatchChildren ==
    AvbPhaseDone =>
       \A i \in DOMAIN vbmeta_order :
          LET p == vbmeta_order[i][1]
          IN  /\ input_files[p].hdr = vbmeta_headers[p]
              /\ \A c \in vbmeta_order[i][2] :
                    LET child == input_files[c].hdr
                        pd == FirstNaming(vbmeta_headers[p], c)
                    IN  /\ pd /= {}
                        /\ IF child.public_key = NoKey
                           THEN /\ pd = FirstNaming(child, c)
                                /\ \A d \in pd :
                                      d.type \in {"Hash", "HashTree"}
                           ELSE \A d \in pd :
                                   /\ d.type = "ChainPartition"
                                   /\ d.value = child.public_key
                        /\ c \in signed => child.public_key = K_AVB

\* vbmeta chains vbmeta_system, which was signed in this run, and names the
\* unsigned patched boot image: it has the new key and the new digest.
C22_ChainAndHashUpdated ==
    /\ AvbPhaseDone
    /\ {"vbmeta", "vbmeta_system"} \subseteq signed
    /\ payload_headers["vbmeta"].descriptors =
          <<Hash("boot", "d0"), ChainPartition("vbmeta_system", K_OEM)>>
    /\ vbmeta_headers["vbmeta"].descriptors =
          <<Hash("boot", "d1"), ChainPartition("vbmeta_system", K_AVB)>>


(***************************************************************************)
(* C23.  When the flags of the node being processed let the loop over its  *)
(* dependencies start, and some dependency c is unsigned without a         *)
(* descriptor for itself, or unsigned with a descriptor whose type and the *)
(* type of the parent's descriptor are not both Hash or both HashTree, or  *)
(* signed while the parent's descriptor is no chain descriptor, then the   *)
(* step of update_vbmeta_headers ends the run with the error of such a     *)
(* dependency, and the parent is neither signed nor written to a new file. *)
(***************************************************************************)
\* The error update_security_descriptors owes for a parent and a child,
\* "none" if it owes none.
SecurityError(parent_header, child_header, name) ==
    LET pd == FirstNaming(parent_header, name)
        cd == FirstNaming(child_header, name)
    IN  IF child_header.public_key = NoKey
        THEN IF cd = {} THEN "no_self_descriptor"
             ELSE IF \E x \in pd, y \in cd :
                        /\ x.type = y.type
                        /\ x.type \in {"Hash", "HashTree"}
             THEN "none"
             ELSE "descriptor_mismatch"
        ELSE IF \E x \in pd : x.type = "ChainPartition" THEN "none"
        ELSE "not_chain"

C23_SecurityErrorsStopUpdate ==
    [][(/\ pc = "update_vbmeta_headers"
        /\ order_idx <= Len(vbmeta_order)
        /\ LET p == vbmeta_order[order_idx][1]
           IN  /\ vbmeta_headers[p].flags = 0 \/ clear_vbmeta_flags
               /\ \E c \in vbmeta_order[order_idx][2] :
                     SecurityError(vbmeta_headers[p], input_files[c].hdr, c)
                        /= "none")
       => /\ pc' = "failed"
          /\ err'.name \in vbmeta_order[order_idx][2]
          /\ err'.kind /= "none"
          /\ err'.kind =
                SecurityError(vbmeta_headers[vbmeta_order[order_idx][1]],
                              input_files[err'.name].hdr, err'.name)
          /\ signed' = signed
          /\ written_files' = written_files]_vars

\* The update has stopped at a patched image whose descriptor has not the
\* type of its parent's descriptor; the parent was not signed or written.
C23_MismatchStopped ==
    /\ pc = "failed"
    /\ err.kind = "descriptor_mismatch"
    /\ signed = {}
    /\ \A f \in written_files : is_vbmeta(f.name) => f.seq = 1


(***************************************************************************)
(* C24.  For an unsigned child, each iteration of                          *)
(* update_metadata_descriptors treats the child's descriptor thus.  A      *)
(* Property: if the parent has a Property with the same key, the value of  *)
(* the first such entry is overwritten in place and nothing else changes,  *)
(* the length of the list included; otherwise the descriptor is appended   *)
(* at the end.  A KernelCmdline whose text before the first '=' is not     *)
(* empty: the same, with the parent's command lines matched by that text   *)
(* and the command line overwritten.  A KernelCmdline without '=' or with  *)
(* nothing before it, and any other descriptor: the parent is unchanged.   *)
(* For a signed child the parent is never changed.                         *)
(***************************************************************************)
\* The positions of '=' in a command line.
EqualSigns(cmdline) == {i \in 1..Len(cmdline) : cmdline[i] = "="}

\* The command line has a non-empty text before its first '='.
HasKey(cmdline) == EqualSigns(cmdline) /= {} /\ 1 \notin EqualSigns(cmdline)

\* That text.
KeyOf(cmdline) ==
    SubSeq(cmdline, 1,
           (CHOOSE i \in EqualSigns(cmdline) :
               \A j \in EqualSigns(cmdline) : i <= j) - 1)

\* The parent's descriptor d is matched by the child's descriptor cd.
Matches(d, cd) ==
    /\ d.type = cd.type
    /\ IF cd.type = "Property" THEN d.key = cd.key
       ELSE /\ HasKey(d.cmdline)
            /\ KeyOf(d.cmdline) = KeyOf(cd.cmdline)

\* before and after are the parent's descriptors around an iteration for
\* the child's descriptor cd.
MergedAsDocumented(before, after, cd) ==
    LET found == {j \in 1..Len(before) : Matches(before[j], cd)}
    IN  IF \/ cd.type \notin {"Property", "KernelCmdline"}
           \/ cd.type = "KernelCmdline" /\ ~HasKey(cd.cmdline)
        THEN after = before
        ELSE IF found = {} THEN after = Append(before, cd)
        ELSE /\ Len(after) = Len(before)
             /\ \A j \in 1..Len(before) :
                   IF j \in found /\ \A k \in found : j <= k
                   THEN /\ after[j].type = cd.type
                        /\ after[j].value = cd.value
                        /\ after[j].cmdline = cd.cmdline
                        /\ after[j].key = before[j].key
                        /\ after[j].name = before[j].name
                   ELSE after[j] = before[j]

C24_MetadataMergedPerDescriptor ==
    [][/\ pc = "for_child_descriptor" /\ pc' = "for_child_descriptor" =>
            MergedAsDocumented(
                vbmeta_headers["vbmeta"].descriptors,
                vbmeta_headers'["vbmeta"].descriptors,
                input_files["boot"].hdr.descriptors[order_idx])
       /\ pc = "update_metadata_descriptors" =>
            vbmeta_headers' = vbmeta_headers
       /\ input_files["boot"].hdr.public_key /= NoKey =>
            vbmeta_headers' = payload_headers]_vars

\* The function has returned: the parent's first property with the child's
\* key has the child's value, its second one is as it was, and a command
\* line with a prefix the parent had not is at the end of a longer list.
C24_OverwrittenAndAppended ==
    /\ pc = "returned"
    /\ input_files["boot"].hdr.descriptors =
          <<Property("k1", "new"), KernelCmdline(<<"c", "=", "2">>)>>
    /\ payload_headers["vbmeta"].descriptors =
          <<ChainPartition("boot", K_AVB), Property("k1", "old"),
            KernelCmdline(<<"a", "=", "1">>), Property("k1", "old2")>>
    /\ vbmeta_headers["vbmeta"].descriptors =
          <<ChainPartition("boot", K_AVB), Property("k1", "new"),
            KernelCmdline(<<"a", "=", "1">>), Property("k1", "old2"),
            KernelCmdline(<<"c", "=", "2">>)>>


(***************************************************************************)
(* C25.  In an iteration of update_vbmeta_headers that succeeds, the       *)
(* node's pool entry gets a new file and the provenance Modified, and the  *)
(* node is signed, if and only if the node's header after the flag and     *)
(* descriptor updates differs from the snapshot taken before them; when    *)
(* it does not differ, the header, the pool entry's file and provenance,   *)
(* and the set of files written are as before.                             *)
(***************************************************************************)
\* The header of the node the iteration is for, with the key it had before
\* the iteration: the header the comparison with the snapshot is made on.
HeaderBeforeSigning(name) ==
    [vbmeta_headers'[name] EXCEPT !.public_key = vbmeta_headers[name].public_key]

C25_ChangedNodeRewritten ==
    /\ AvbPhaseDone
    /\ payload_headers["vbmeta"].flags = 0
    /\ "vbmeta" \in signed
    /\ input_files["vbmeta"].state = "Modified"
    /\ input_files["vbmeta"].file = TempFile("vbmeta", 2)


(***************************************************************************)
(* C26.  When the pool is compressed, the partial compression with the     *)
(* ranges is attempted for an entry if and only if it is the system image  *)
(* and its name is not among the replacements; every other entry is        *)
(* compressed as a whole: its operations and its partition info are those  *)
(* of the full compression and its modified indices are the whole range    *)
(* [0, number of operations).                                              *)
(***************************************************************************)
\* The whole index range of a partition's operations.
WholeRange(name) == 0..(Len(header_locked[name].operations) - 1)

\* The partition is as the compression of the whole image leaves it.
FullyRecompressed(name) ==
    /\ compressed_files[name] = WholeRange(name)
    /\ header_locked[name].new_partition_info = "compress_image"
    /\ \A i \in DOMAIN header_locked[name].operations :
          header_locked[name].operations[i].by = "compress_image"

C26_PartialOnlyForOriginalSystem ==
    /\ \A n \in DOMAIN partial_results :
          n = "system" /\ n \notin external_images
    /\ \A n \in DOMAIN compressed_files :
          IF n = "system" /\ n \notin external_images
          THEN n \in DOMAIN partial_results
          ELSE n \notin DOMAIN partial_results /\ FullyRecompressed(n)
    /\ pc \in {"write_payload", "payload_written"} =>
          DOMAIN compressed_files = DOMAIN input_files

\* The pool is compressed: the system image of the payload in part, the
\* patched boot image and the replacement of vendor as a whole.
C26_PartialAndFull ==
    /\ pc = "write_payload"
    /\ external_images = {"vendor"}
    /\ partial_results = [n \in {"system"} |-> "ok"]
    /\ compressed_files["system"] /= WholeRange("system")
    /\ FullyRecompressed("vendor")
    /\ FullyRecompressed("boot")


(***************************************************************************)
(* C27.  When the partial compression reports that the extents are not in  *)
(* order, compress_image does not return that error: it compresses the     *)
(* whole image and, unless that compression fails itself, the partition's  *)
(* operations and partition info are those of the full compression and the *)
(* indices returned are the whole range.  Every other error of the partial *)
(* compression ends the run, and the partition is not compressed.          *)
(***************************************************************************)
C27_ExtentsNotInOrderFallsBack ==
    \A n \in DOMAIN partial_results :
       /\ partial_results[n] = "extents_not_in_order" =>
             /\ err.kind /= "compress_modified_image"
             /\ IF n \in DOMAIN compressed_files
                THEN FullyRecompressed(n)
                ELSE pc = "failed" /\ err = Error("compress_image", n)
       /\ partial_results[n] = "error" =>
             /\ pc = "failed"
             /\ err = Error("compress_modified_image", n)
             /\ n \notin DOMAIN compressed_files
             /\ header_locked[n].new_partition_info = "manifest"

\* The payload is written after the partial compression of the system
\* image had reported extents that are not in order.
C27_FellBackToFull ==
    /\ pc = "payload_written"
    /\ partial_results = [n \in {"system"} |-> "extents_not_in_order"]
    /\ Len(header_locked["system"].operations) = 2
    /\ compressed_files["system"] = {0, 1}


(***************************************************************************)
(* C28.  While the new payload is written, the data of each operation that *)
(* has a data length is copied once, from one source: from the partition's *)
(* compressed file at the operation's data offset when the partition is in *)
(* the pool and the operation's index is among its modified indices,       *)
(* otherwise from the original payload at the operation's data offset plus *)
(* the offset of the blob section; for an operation without a data length  *)
(* nothing is copied.                                                      *)
(***************************************************************************)
\* sum = a + b on u64 values, without overflow: carries exist that make
\* every limb add up.
IsSum(a, b, sum) ==
    \E carry \in [1..5 -> {0, 1}] :
       /\ carry[1] = 0
       /\ carry[5] = 0
       /\ \A k \in 1..4 :
             a[k] + b[k] + carry[k + 1] = sum[k] + 65536 * carry[k]

C28_EachOperationFromOneSource ==
    /\ \A k \in DOMAIN copies :
          LET c == copies[k]
              operation == header_locked[c.name].operations[c.oi + 1]
          IN  /\ operation.data_length = SomeU64(c.length)
              /\ operation.data_offset.some
              /\ c.from \in {"replacement", "original"}
              /\ c.from = "replacement" <=>
                    /\ c.name \in DOMAIN input_files
                    /\ c.oi \in compressed_files[c.name]
              /\ c.from = "replacement" =>
                    c.offset = operation.data_offset.value
              /\ c.from = "original" =>
                    IsSum(operation.data_offset.value, U64(0, 0, 0, 2048),
                          c.offset)
              /\ \A j \in DOMAIN copies :
                    (copies[j].name = c.name /\ copies[j].oi = c.oi) => j = k
    /\ pc = "payload_written" =>
          \A n \in manifest :
             \A i \in DOMAIN header_locked[n].operations :
                header_locked[n].operations[i].data_length.some <=>
                   \E k \in DOMAIN copies :
                      copies[k].name = n /\ copies[k].oi = i - 1

\* The payload is written: of the system image's three operations the
\* first has no data and was not copied, the second was recompressed and
\* copied from the compressed file, the third was copied from the original
\* payload; vendor, not in the pool, was copied from the original payload.
C28_BothSourcesAndNoData ==
    /\ pc = "payload_written"
    /\ external_images = {}
    /\ compressed_files["system"] = {1}
    /\ ~header_locked["system"].operations[1].data_length.some
    /\ copies =
          << Copy("boot", 0, "replacement", U64(0, 0, 0, 0),
                  U64(0, 0, 0, 512)),
             Copy("system", 1, "replacement", U64(0, 0, 0, 0),
                  U64(0, 0, 0, 512)),
             Copy("system", 2, "original", U64(0, 0, 0, 6144),
                  U64(0, 0, 0, 512)),
             Copy("vendor", 0, "original", U64(0, 0, 1, 2048),
                  U64(0, 0, 0, 512)) >>


(***************************************************************************)
(* C29.  The entries the loop of patch_ota_zip starts in the output        *)
(* archive are the entries of the input archive other than the two         *)
(* metadata entries, in ascending order of their names and none skipped;   *)
(* the metadata entries, both of them whichever the input had, are         *)
(* appended only when every other entry of the input has been written.     *)
(***************************************************************************)
Copied == {p \in DOMAIN paths : p \notin {PATH_METADATA, PATH_METADATA_PB}}

StartedBefore(i) == {zip_writer[j].name : j \in 1..(i - 1)}

C29_NameOrderMetadataLast ==
    /\ \A i \in DOMAIN zip_writer :
          /\ zip_writer[i].name \in Copied
          /\ \A p \in StartedBefore(i) : StrLess(p, zip_writer[i].name)
          /\ \A p \in Copied :
                StrLess(p, zip_writer[i].name) => p \in StartedBefore(i)
    /\ \A i \in DOMAIN entries : entries[i].name = zip_writer[i].name
    /\ added_metadata /= <<>> =>
          /\ {entries[i].name : i \in DOMAIN entries} = Copied
          /\ \A i \in DOMAIN zip_writer : zip_writer[i].data /= None
          /\ {added_metadata[i] : i \in DOMAIN added_metadata}
                = {PATH_METADATA, PATH_METADATA_PB}

\* An archive with the protobuf metadata only and a fourth entry to copy was
\* rewritten: four entries by the loop, then the metadata entries.
C29_FourEntriesThenMetadata ==
    /\ pc = "zip_finish"
    /\ PATH_METADATA \notin DOMAIN paths
    /\ [i \in DOMAIN zip_writer |-> zip_writer[i].name]
          = <<PATH_OTACERT, PATH_OTHER, PATH_PAYLOAD, PATH_PROPERTIES>>
    /\ Len(added_metadata) = 2

(***************************************************************************)
(* C30.  When the properties entry is processed the OTA-certificate entry  *)
(* and the payload entry have been written, so the properties string is    *)
(* there (the unwrap never panics), and the data written for the           *)
(* properties entry is the string patch_ota_payload returned.              *)
(***************************************************************************)
WrittenBefore(i) ==
    {zip_writer[j].name : j \in {k \in 1..(i - 1) : zip_writer[k].data /= None}}

C30_PropertiesAfterPayload ==
    /\ pc /= "panic"
    /\ properties /= None <=>
          \E i \in DOMAIN zip_writer :
             /\ zip_writer[i].name = PATH_PAYLOAD
             /\ zip_writer[i].data /= None
    /\ \A i \in DOMAIN zip_writer :
          zip_writer[i].name = PATH_PROPERTIES =>
             /\ {PATH_OTACERT, PATH_PAYLOAD} \subseteq WrittenBefore(i)
             /\ properties \in PropertiesStrings
             /\ zip_writer[i].data \in {None, properties}

\* The properties entry was written with the string the payload returned.
C30_PropertiesWritten ==
    \E i \in DOMAIN zip_writer :
       /\ zip_writer[i].name = PATH_PROPERTIES
       /\ zip_writer[i].data = "FILE_HASH=b"
       /\ properties = "FILE_HASH=b"


(***************************************************************************)
(* C31.  The offset handed to ota::add_metadata is offset + size of the    *)
(* last entry the loop wrote, plus 24 when that entry was started with     *)
(* zip64 extensions and plus 16 otherwise; last_entry_used_zip64 is at     *)
(* every moment the flag of the last entry written, whatever the size of   *)
(* a metadata entry the loop skipped.                                      *)
(***************************************************************************)
LastWritten == Len(entries)

C31_MetadataOffsetAfterLastEntry ==
    /\ last_entry_used_zip64 =
          (entries /= <<>> /\ zip_writer[LastWritten].large_file)
    /\ metadata_offset.some =>
          LET e == entries[LastWritten]
              end == Plus(e.offset, e.size)
          IN  /\ e.name = zip_writer[Len(zip_writer)].name
              /\ zip_writer[LastWritten].large_file =>
                    metadata_offset.value = Plus(end, U64(0, 0, 0, 24))
              /\ ~zip_writer[LastWritten].large_file =>
                    metadata_offset.value = Plus(end, U64(0, 0, 0, 16))

\* The last entry written used zip64 and a skipped metadata entry was
\* small: the offset was handed over with 24 added.
C31_Zip64LastEntry ==
    /\ metadata_offset.some
    /\ last_entry_used_zip64
    /\ PATH_METADATA_PB \in DOMAIN paths
    /\ ~use_zip64(paths[PATH_METADATA_PB])

(***************************************************************************)
(* C32.  The metadata handed to ota::add_metadata is the one parsed from   *)
(* the protobuf entry when the input archive has that entry, and the one   *)
(* parsed from the legacy entry only when it has not.                      *)
(***************************************************************************)
C32_ProtobufMetadataPreferred ==
    metadata_offset.some =>
       metadata = IF PATH_METADATA_PB \in DOMAIN paths
                  THEN PATH_METADATA_PB
                  ELSE PATH_METADATA

\* An archive with both metadata entries was rewritten from the protobuf.
C32_BothPresent ==
    /\ pc = "zip_finish"
    /\ {PATH_METADATA, PATH_METADATA_PB} \subseteq DOMAIN paths
    /\ metadata = PATH_METADATA_PB


(***************************************************************************)
(* C37.  Every entry written to the output archive with a size of at       *)
(* least 2^32 - 1 was started with zip64 extensions, the payload entry     *)
(* included when the new payload is larger than the one of the input.      *)
(***************************************************************************)
C37_LargeEntriesUseZip64 ==
    \A i \in DOMAIN entries :
       GeqU64(entries[i].size, U64(0, 0, 65535, 65535))
          => zip_writer[i].large_file


(***************************************************************************)
(* C33.  When open_input_files succeeds, the names of the pool are the     *)
(* required images together with the replacement images, and an entry is   *)
(* External exactly when its name has a replacement, Extracted otherwise.  *)
(***************************************************************************)
OpenInputFilesReturned ==
    pc = "open_input_files" /\ pc' = "patch_boot_images"

C33_PoolIsRequiredAndExternal ==
    [][OpenInputFilesReturned =>
          /\ DOMAIN input_files'
                = RequiredImages(manifest) \cup external_images
          /\ \A n \in DOMAIN input_files' :
                input_files'[n].state =
                   IF n \in external_images THEN "External" ELSE "Extracted"]_vars

\* The pool holds a replacement that is not a required image, beside an
\* extracted required image.
C33_ReplacementOutsideRequired ==
    /\ pc = "patch_boot_images"
    /\ \E n \in DOMAIN input_files :
          /\ n \notin RequiredImages(manifest)
          /\ input_files[n].state = "External"
    /\ \E n \in DOMAIN input_files : input_files[n].state = "Extracted"


(***************************************************************************)
(* C36.  The provenance of a pool entry only moves forward in the order    *)
(* External, Extracted, Modified, and once open_input_files has returned   *)
(* no step adds a name to the pool.                                        *)
(***************************************************************************)
ProvenanceRank(state) ==
    CASE state = "External" -> 1
      [] state = "Extracted" -> 2
      [] state = "Modified" -> 3

C36_ProvenanceMovesForward ==
    [][/\ pc /= "open_input_files" =>
             DOMAIN input_files' \subseteq DOMAIN input_files
       /\ \A n \in DOMAIN input_files \cap DOMAIN input_files' :
             ProvenanceRank(input_files'[n].state)
                >= ProvenanceRank(input_files[n].state)]_vars

\* A replacement system image went from External to Modified, and a boot
\* image from Extracted to Modified.
C36_ReplacementBecameModified ==
    /\ \E n \in external_images \cap DOMAIN input_files :
          is_system(n) /\ input_files[n].state = "Modified"
    /\ \E n \in DOMAIN input_files \ external_images :
          is_boot(n) /\ input_files[n].state = "Modified"


(***************************************************************************)
(* C39.  With no partition named system in the manifest the patch never    *)
(* gets past patch_system_image: the step is reached only after the Boot   *)
(* phase (patch_boot_images and the retain that follows it), it fails with *)
(* the error for the missing system partition, that error comes from no    *)
(* other step, and no vbmeta image is loaded or signed and no payload is   *)
(* produced.                                                               *)
(***************************************************************************)
BeforeAvbPhase ==
    {"patch_subcommand", "patch_ota_zip", "patch_ota_payload",
     "open_input_files", "patch_boot_images", "retain_boot",
     "patch_system_image", "failed"}

C39_NoSystemFailsInSystemPhase ==
    []["system" \notin manifest =>
          /\ pc' \in BeforeAvbPhase
          /\ pc = "patch_system_image" /\ pc' /= pc =>
                pc' = "failed" /\ err'.kind = "no_system"
          /\ err'.kind = "no_system" /\ err.kind /= "no_system" =>
                pc = "patch_system_image"
          /\ pc' = "patch_system_image" /\ pc' /= pc => pc = "retain_boot"
          /\ pc' = "retain_boot" /\ pc' /= pc => pc = "patch_boot_images"
          /\ vbmeta_headers' = Empty
          /\ signed' = {}
          /\ new_payload' = Empty
          /\ output' = "original"]_vars

\* A payload with a boot image and no system image: the boot image was
\* patched, then the run failed for the missing system partition.
C39_FailedAfterBootPhase ==
    /\ "system" \notin manifest
    /\ "boot" \in manifest
    /\ pc = "failed"
    /\ err.kind = "no_system"
    /\ \E f \in written_files : f.name = "boot" /\ f.seq = 2


(***************************************************************************)
(* C38.  update_metadata_descriptors is idempotent: when it has returned,  *)
(* applying it again to the parent header it left, with the same child,    *)
(* gives that parent header again.  This holds too when the child or the   *)
(* parent has several descriptors with the same key or the same prefix.    *)
(***************************************************************************)
C38_MergeIdempotent ==
    pc = "returned" =>
       update_metadata_descriptors(vbmeta_headers["vbmeta"],
                                   input_files["boot"].hdr)
          = vbmeta_headers["vbmeta"]

\* The child had two properties with the key of two properties of the
\* parent, with different values, and the merge changed the parent.
C38_SameKeyTwice ==
    /\ pc = "returned"
    /\ input_files["boot"].hdr.descriptors
          = <<Property("k1", "new"), Property("k1", "new2")>>
    /\ Property("k1", "old2") \in
          {payload_headers["vbmeta"].descriptors[i] :
              i \in DOMAIN payload_headers["vbmeta"].descriptors}
    /\ vbmeta_headers["vbmeta"] /= payload_headers["vbmeta"]


(***************************************************************************)
(* C40.  Every time update_vbmeta_headers processes a child c of a node p, *)
(* in whatever order the children are visited, c is an entry of the pool   *)
(* and the header of p, as the earlier children's updates left it, has a   *)
(* descriptor whose partition name is c: neither unwrap panics.            *)
(***************************************************************************)
NamesPartition(header, c) ==
    \E i \in DOMAIN header.descriptors :
       partition_name(header.descriptors[i]) = c

C40_ChildLookupsSucceed ==
    /\ err.kind /= "panic"
    /\ pc = "update_vbmeta_headers" /\ order_idx <= Len(vbmeta_order) =>
          LET name == vbmeta_order[order_idx][1]
              deps == vbmeta_order[order_idx][2]
          IN  \A deps_seq \in Perms(deps) :
              \A k \in 1..Len(deps_seq) :
                 LET before ==
                        UpdatedHeader(input_files, vbmeta_headers, name,
                                      SubSeq(deps_seq, 1, k - 1),
                                      clear_vbmeta_flags)
                 IN  /\ deps_seq[k] \in DOMAIN input_files
                     /\ before.ok => NamesPartition(before.header, deps_seq[k])

\* A node with two children is about to be updated: the second child is
\* looked up in a header the first child's update has changed.
C40_SecondChildAfterFirst ==
    /\ pc = "update_vbmeta_headers"
    /\ order_idx <= Len(vbmeta_order)
    /\ LET name == vbmeta_order[order_idx][1]
           deps == vbmeta_order[order_idx][2]
       IN  \E a \in deps, b \in deps :
              /\ a /= b
              /\ LET first == UpdatedHeader(input_files, vbmeta_headers, name,
                                            <<a>>, clear_vbmeta_flags)
                 IN  first.ok /\ first.header /= vbmeta_headers[name]


(***************************************************************************)
(* C34.  However the hashing tasks are scheduled, when                     *)
(* verify_partition_hashes returns success every listed partition is in    *)
(* the manifest, declares a digest, and its image file has that SHA-256;   *)
(* a partition for which this is not so makes the call fail whatever the   *)
(* other tasks return; and when it is so for every partition the call      *)
(* fails only if reading an image failed or the run was cancelled.         *)
(***************************************************************************)
HashMatches(name) ==
    /\ name \in DOMAIN header_locked
    /\ header_locked[name].new_partition_info /= None
    /\ directory[name] = header_locked[name].new_partition_info

C34_SuccessIffEveryHashMatches ==
    /\ pc = "returned" => \A n \in DOMAIN tasks : HashMatches(n)
    /\ pc \in {"returned", "failed"}
       /\ (\E n \in DOMAIN tasks : ~HashMatches(n)) =>
          /\ pc = "failed"
          /\ err.kind \in TaskErrors
    /\ pc = "failed" /\ (\A n \in DOMAIN tasks : HashMatches(n)) =>
          err.kind \in {"io", "cancel"}

\* One image did not have the declared digest, another task had returned
\* Ok and a third one was never run: the call failed.
C34_OneMismatchFails ==
    /\ pc = "failed"
    /\ err.kind = "mismatch"
    /\ \E a, b \in DOMAIN tasks : tasks[a] = "ok" /\ tasks[b] = "skipped"

(***************************************************************************)
(* C35.  However the boot-patching tasks interleave: a step that changes   *)
(* the pool is the write-open of one task n, taken while n holds the       *)
(* mutex, and it changes only the entry of n, which gets a temp file no    *)
(* entry was backed by and provenance Modified, every other entry keeping  *)
(* its file, provenance and header; the mutex is held only by a task that  *)
(* is inside one of the two closures, so never while an image is patched   *)
(* or written; and after a successful Boot phase the pool is the one the   *)
(* tasks' inputs determine: each rewritten image Modified on its new temp  *)
(* file with its patched header, every other entry as it was opened.       *)
(***************************************************************************)
InClosure(name) == tasks[name].pc \in {"open_input", "open_output"}

WriteOpenOf(name) ==
    /\ mutex = name
    /\ tasks[name].pc = "open_output"
    /\ DOMAIN input_files' = DOMAIN input_files
    /\ input_files'[name].state = "Modified"
    /\ input_files'[name].file.kind = "temp"
    /\ \A m \in DOMAIN input_files :
          input_files'[name].file /= input_files[m].file
    /\ input_files'[name].file \notin written_files
    /\ \A m \in DOMAIN input_files \ {name} :
          input_files'[m] = input_files[m]

C35_WriteOpenChangesOnlyItsEntry ==
    /\ [][pc = "patch_boot_images" /\ input_files' /= input_files =>
             \/ \E name \in DOMAIN tasks : WriteOpenOf(name)
             \/ pc' = "failed"]_vars
    /\ [](pc = "patch_boot_images" =>
             /\ mutex /= None => mutex \in DOMAIN tasks /\ InClosure(mutex)
             /\ \A n \in DOMAIN tasks : InClosure(n) => mutex = n)
    /\ [](pc = "retain_boot" =>
             input_files =
                [n \in AllImages |->
                    IF n \in DOMAIN tasks /\ tasks[n].target
                    THEN InputFile(TempFile(n, IF n \in external_images
                                               THEN 1 ELSE 2),
                                   "Modified", tasks[n].hdr)
                    ELSE OpenedFile(n, input_files[n].hdr)])

\* The entry of boot was swapped and its task is still writing the image,
\* while the task of init_boot holds the mutex in its own write-open and
\* its entry is still the extracted one.
C35_SwappedWhileOtherHoldsMutex ==
    /\ pc = "patch_boot_images"
    /\ input_files["boot"].state = "Modified"
    /\ input_files["boot"].file = TempFile("boot", 2)
    /\ tasks["boot"].pc = "writing"
    /\ mutex = "init_boot"
    /\ tasks["init_boot"].pc = "open_output"
    /\ input_files["init_boot"] = OpenedFile("init_boot", Unparsed)

=============================================================================
